---- MODULE Spec2Model ----
(***************************************************************************)
(* A model of simple_experiment_manager: the experiment index, the         *)
(* storage tree under the experiment root, the core operations of          *)
(* api/experiment.py and api/label.py, and the ExperimentManager facade    *)
(* with its cached index.                                                  *)
(*                                                                         *)
(* Names are sequences of characters, paths are sequences of path          *)
(* components relative to the experiment root (the root itself is <<>>),   *)
(* and an optional value is a sequence of length 0 (None) or 1.            *)
(***************************************************************************)
EXTENDS Integers, Sequences, FiniteSets, TLC

VARIABLES
    ctx,        \* the ExperimentContext the manager was built with
    dirs,       \* the directories that exist at or below the experiment root
    files,      \* the files below the experiment root: path -> content
    cache,      \* ExperimentManager._index
    response,   \* the request last served by the manager and its response
    inflight    \* the core operation each other process is in the middle of

vars == <<ctx, dirs, files, cache, response, inflight>>

(***************************************************************************)
(* Bounds of the model.                                                    *)
(***************************************************************************)
\* a label list in a request has at most MaxReqLabels entries
MaxReqLabels == 2

\* the readings of datetime.now(); they are only ever compared for equality
Times == {"t1", "t2"}
Labels == {"x", "y"}
ConfigVals == {"v1", "v2"}

(***************************************************************************)
(* Optional values.                                                        *)
(***************************************************************************)
None == <<>>
Some(x) == <<x>>
Get(o) == o[1]

Range(s) == {s[i] : i \in 1..Len(s)}

\* python dict assignment  d[k] = v
MapSet(m, k, v) == [x \in (DOMAIN m) \cup {k} |-> IF x = k THEN v ELSE m[x]]
\* python  del d[k]  /  d.pop(k)
MapDel(m, k) == [x \in (DOMAIN m) \ {k} |-> m[x]]

(***************************************************************************)
(* schemas/validators.py                                                   *)
(***************************************************************************)
INVALID_CHARS == {"\\", "/", ":", "*", "?", "\"", "<", ">", "|", " "}

\* mutant: every name is taken as safe
accept_any_name(name) == TRUE

\* TRUE when validate_safe_name returns the name, FALSE when it raises.
validate_safe_name(name) == \A i \in 1..Len(name) : name[i] \notin INVALID_CHARS

\* mutant: repeated items are kept
keep_duplicates(items) == items

\* list(dict.fromkeys(items)): the first occurrence of every item, in order.
RECURSIVE ensure_unique_list(_)
ensure_unique_list(items) ==
    IF items = <<>> THEN <<>>
    ELSE LET front == ensure_unique_list(SubSeq(items, 1, Len(items) - 1))
             last == items[Len(items)]
         IN IF last \in Range(front) THEN front ELSE Append(front, last)

(***************************************************************************)
(* schemas/contexts.py: the context and the paths it derives.              *)
(***************************************************************************)
\* the whole file name is one path component; it holds no invalid character
IndexFileName == <<"experiment_index.json">>
ConfigFileName == <<"config.yaml">>

BaseModelConfig(v) == [kind |-> "BaseModel", val |-> v]
ConfigClass(v) == [kind |-> "ConfigClass", val |-> v]
Configs == {BaseModelConfig(v) : v \in ConfigVals} \cup {ConfigClass(v) : v \in ConfigVals}

ExperimentContext(default) == [default_config |-> default]

experiment_root == <<>>
experiment_index_file == experiment_root \o <<IndexFileName>>
\* pathlib: the components of a relative name; "/" separates them, empty
\* components and "." are dropped (a name starting with "/" is absolute and
\* is not among the inputs)
RECURSIVE path_parts(_)
path_parts(name) ==
    IF name = <<>> THEN <<>>
    ELSE LET slashes == {i \in 1..Len(name) : name[i] = "/"}
             k == IF slashes = {} THEN Len(name) + 1
                  ELSE CHOOSE i \in slashes : \A j \in slashes : i <= j
             part == SubSeq(name, 1, k - 1)
             rest == SubSeq(name, k + 1, Len(name))
         IN (IF part \in {<<>>, <<".">>} THEN <<>> ELSE <<part>>) \o path_parts(rest)

\* experiment_root / experiment_name: root / "" is root itself, root / "a/"
\* is root / "a"
get_experiment_dir(name) == experiment_root \o path_parts(name)
\* mutant: every config file is the one of the experiment root
config_file_in_root(name) == experiment_root \o <<ConfigFileName>>

get_config_file(name) == get_experiment_dir(name) \o <<ConfigFileName>>
\* config_file.relative_to(context.experiment_root)
relative_to_root(path) == SubSeq(path, Len(experiment_root) + 1, Len(path))

(***************************************************************************)
(* schemas/index.py                                                        *)
(***************************************************************************)
EmptyMap == [n \in {} |-> None]

\* ExperimentMetadata(created_at=now, labels=labels, config_path=config_path);
\* the labels validator de-duplicates.
ExperimentMetadata(now, labels, config_path) ==
    [created_at |-> now, labels |-> ensure_unique_list(labels), config_path |-> config_path]

\* ExperimentIndex()
ExperimentIndex ==
    [active_experiment |-> None, global_labels |-> <<>>, experiments |-> EmptyMap]

\* ExperimentIndex.model_validate(data): the field validators run on load.
model_validate(data) ==
    [active_experiment |-> data.active_experiment,
     global_labels |-> ensure_unique_list(data.global_labels),
     experiments |-> [n \in DOMAIN data.experiments |->
                        [data.experiments[n] EXCEPT !.labels = ensure_unique_list(@)]]]

\* mutant: an assignment to an experiment's labels is lost
set_labels_nowhere(index, name, v) == index

\* validate_assignment=True: an assignment to a labels field is validated.
set_global_labels(index, v) == [index EXCEPT !.global_labels = ensure_unique_list(v)]
set_labels(index, name, v) ==
    [index EXCEPT !.experiments[name].labels = ensure_unique_list(v)]
\* mutant: an assignment to active_experiment is lost
set_active_nowhere(index, v) == index

set_active(index, v) == [index EXCEPT !.active_experiment = v]

(***************************************************************************)
(* The file system below the experiment root (pathlib, os, shutil, open).  *)
(***************************************************************************)
FS == [dirs |-> dirs, files |-> files]

Parent(p) == SubSeq(p, 1, Len(p) - 1)
Prefixes(p) == {SubSeq(p, 1, k) : k \in 0..Len(p)}
IsPrefix(p, q) == Len(p) <= Len(q) /\ SubSeq(q, 1, Len(p)) = p
Reprefix(old, new, p) == new \o SubSeq(p, Len(old) + 1, Len(p))

path_exists(fs, p) == p \in fs.dirs \/ p \in DOMAIN fs.files
is_dir(fs, p) == p \in fs.dirs

Ok(fs) == [raised |-> FALSE, err |-> "", fs |-> fs]
Raise(err, fs) == [raised |-> TRUE, err |-> err, fs |-> fs]

\* Path.mkdir(parents=True, exist_ok=True)
mkdir_parents(fs, p) ==
    IF \E q \in Prefixes(p) : q \in DOMAIN fs.files
    THEN Raise("FileExistsError", fs)
    ELSE Ok([fs EXCEPT !.dirs = @ \cup Prefixes(p)])

\* shutil.rmtree(p)
rmtree(fs, p) ==
    [dirs |-> {d \in fs.dirs : ~IsPrefix(p, d)},
     files |-> [f \in {g \in DOMAIN fs.files : ~IsPrefix(p, g)} |-> fs.files[f]]]

\* Path.rename for a directory whose destination does not exist
dir_rename(fs, old, new) ==
    IF IsPrefix(old, new)
    THEN Raise("OSError", fs)
    ELSE LET moved(p) == IF IsPrefix(old, p) THEN Reprefix(old, new, p) ELSE p
         IN Ok([dirs |-> {moved(d) : d \in fs.dirs},
                files |-> [f \in {moved(g) : g \in DOMAIN fs.files} |->
                             LET src == CHOOSE g \in DOMAIN fs.files : moved(g) = f
                             IN fs.files[src]]])

(***************************************************************************)
(* io/json_handler.py, io/yaml_handler.py, io/handlers.py                  *)
(***************************************************************************)
\* save_data_to_json / save_data_to_yaml_with_comments: make the parent
\* directory, open the file for writing, dump.  An OSError is re-raised.
StructuredDataIO_save(fs, path, data) ==
    LET m == mkdir_parents(fs, Parent(path))
    IN IF m.raised THEN Raise("write_failed", m.fs)
       ELSE IF is_dir(m.fs, path) THEN Raise("write_failed", m.fs)
       ELSE Ok([m.fs EXCEPT !.files = MapSet(@, path, data)])

\* load_data_from_json / load_data_from_yaml
StructuredDataIO_load(fs, path) ==
    IF path \in DOMAIN fs.files THEN [raised |-> FALSE, err |-> "", data |-> Some(fs.files[path])]
    ELSE IF is_dir(fs, path) THEN [raised |-> TRUE, err |-> "read_failed", data |-> None]
    ELSE [raised |-> TRUE, err |-> "file_not_found", data |-> None]

\* model_dump(mode="json") of a config: its plain field values
model_dump(config) == config.val

\* mutant: the new config is written into every config file
save_config_everywhere(fs, experiment_name, config) ==
    LET s == StructuredDataIO_save(fs, get_config_file(experiment_name), model_dump(config))
    IN IF s.raised THEN s
       ELSE Ok([s.fs EXCEPT !.files =
                   [f \in DOMAIN @ |-> IF f = experiment_index_file THEN @[f]
                                       ELSE model_dump(config)]])

\* ExperimentDataIO.save_config
save_config(fs, experiment_name, config) ==
    StructuredDataIO_save(fs, get_config_file(experiment_name), model_dump(config))

\* mutant: the default config is returned whatever the file holds
load_default_config(fs, c, experiment_name) ==
    [raised |-> FALSE, err |-> "", config |-> Some(c.default_config)]

\* ExperimentDataIO.load_config: the document is rebuilt in the kind of the
\* context's default config.
load_config(fs, c, experiment_name) ==
    LET l == StructuredDataIO_load(fs, get_config_file(experiment_name))
    IN IF l.raised THEN [raised |-> TRUE, err |-> l.err, config |-> None]
       ELSE [raised |-> FALSE, err |-> "",
             config |-> Some(IF c.default_config.kind = "BaseModel"
                             THEN BaseModelConfig(Get(l.data))
                             ELSE ConfigClass(Get(l.data)))]

\* ExperimentDataIO.save_index
save_index(fs, experiment_index) ==
    StructuredDataIO_save(fs, experiment_index_file, experiment_index)

\* ExperimentDataIO.load_index
load_index(fs) ==
    IF ~path_exists(fs, experiment_index_file)
    THEN [raised |-> FALSE, err |-> "", index |-> Some(ExperimentIndex)]
    ELSE LET l == StructuredDataIO_load(fs, experiment_index_file)
         IN IF l.raised THEN [raised |-> TRUE, err |-> l.err, index |-> None]
            ELSE [raised |-> FALSE, err |-> "", index |-> Some(model_validate(Get(l.data)))]

\* ExperimentDataIO.delete_experiment_data
delete_experiment_data(fs, experiment_name) ==
    LET experiment_dir == get_experiment_dir(experiment_name)
    IN IF path_exists(fs, experiment_dir) /\ is_dir(fs, experiment_dir)
       THEN rmtree(fs, experiment_dir)
       ELSE fs

\* ExperimentDataIO.rename_experiment_dir
rename_experiment_dir(fs, old_name, new_name) ==
    LET old_dir == get_experiment_dir(old_name)
        new_dir == get_experiment_dir(new_name)
    IN IF ~path_exists(fs, old_dir) THEN Raise("source_dir_not_found", fs)
       ELSE IF path_exists(fs, new_dir) THEN Raise("destination_exists", fs)
       ELSE LET r == dir_rename(fs, old_dir, new_dir)
            IN IF r.raised THEN Raise("rename_failed", fs) ELSE r

(***************************************************************************)
(* api/experiment.py                                                       *)
(***************************************************************************)
\* a message: its wording (kind), the labels it reports as unknown, and the
\* label list it quotes
Msg(kind) == [kind |-> kind, unknown |-> {}, labels |-> <<>>]
MsgAbout(kind, labels) == [kind |-> kind, unknown |-> {}, labels |-> labels]

\* a response record together with the file system the operation leaves
Result(ok, msg, idx, fs) ==
    [is_success |-> ok, message |-> msg, current_index |-> idx, fs |-> fs]
Failure(kind, fs) == Result(FALSE, Msg(kind), None, fs)
Success(kind, index, fs) == Result(TRUE, Msg(kind), Some(index), fs)

\* mutant: a config of any kind is accepted
accept_any_config(config, c) == TRUE

\* TRUE when _validate_config_type returns, FALSE when it raises TypeError.
validate_config_type(config, c) ==
    IF c.default_config.kind = "BaseModel" THEN config.kind = "BaseModel"
    ELSE IF c.default_config.kind = "ConfigClass" THEN config.kind = "ConfigClass"
    ELSE TRUE

\* _create_experiment_core: returns the updated index or raises.
create_experiment_core(fs, c, experiment_name, config, labels, now) ==
    LET experiment_dir == get_experiment_dir(experiment_name)
        config_file == get_config_file(experiment_name)
    IN IF ~validate_config_type(config, c)
       THEN [raised |-> TRUE, err |-> "type_error", index |-> None, fs |-> fs]
       ELSE IF path_exists(fs, experiment_dir)
       THEN [raised |-> TRUE, err |-> "already_exists", index |-> None, fs |-> fs]
       ELSE LET l == load_index(fs)
            IN IF l.raised
               THEN [raised |-> TRUE, err |-> l.err, index |-> None, fs |-> fs]
               ELSE LET s == save_config(fs, experiment_name, config)
                    IN IF s.raised
                       THEN [raised |-> TRUE, err |-> s.err, index |-> None, fs |-> s.fs]
                       ELSE LET meta == ExperimentMetadata(now, labels,
                                                           relative_to_root(config_file))
                                index1 == [Get(l.index) EXCEPT
                                             !.experiments = MapSet(@, experiment_name, meta)]
                                index2 == set_active(index1, Some(experiment_name))
                                w == save_index(s.fs, index2)
                            IN IF w.raised
                               THEN [raised |-> TRUE, err |-> w.err, index |-> None, fs |-> w.fs]
                               ELSE [raised |-> FALSE, err |-> "", index |-> Some(index2),
                                     fs |-> w.fs]

\* mutant: a failed create puts the storage back as it was
create_experiment_with_rollback(fs, c, experiment_name, config, now) ==
    LET actual_config == IF config = None THEN c.default_config ELSE Get(config)
        r == create_experiment_core(fs, c, experiment_name, actual_config, <<>>, now)
    IN IF r.raised THEN Failure(r.err, fs) ELSE Success("created", Get(r.index), r.fs)

create_experiment(fs, c, experiment_name, config, now) ==
    LET actual_config == IF config = None THEN c.default_config ELSE Get(config)
        r == create_experiment_core(fs, c, experiment_name, actual_config, <<>>, now)
    IN IF r.raised THEN Failure(r.err, r.fs) ELSE Success("created", Get(r.index), r.fs)

\* mutant: the active experiment is never reset
keep_active(index, experiment_name) == index

\* delete_experiment: reset the active experiment if it is removed
reset_active_if_removed(index, experiment_name) ==
    IF index.active_experiment = Some(experiment_name)
    THEN set_active(index, None) ELSE index

\* mutant: the active experiment does not follow the rename
move_active_never(index, old_experiment_name, new_experiment_name) == index

\* rename_experiment: update active experiment if necessary
move_active(index, old_experiment_name, new_experiment_name) ==
    IF index.active_experiment = Some(old_experiment_name)
    THEN set_active(index, Some(new_experiment_name))
    ELSE index

\* mutant: the experiment is made active without looking it up
set_active_experiment_unchecked(fs, experiment_name) ==
    LET l == load_index(fs)
    IN IF l.raised THEN Failure(l.err, fs)
       ELSE LET index == set_active(Get(l.index), Some(experiment_name))
                w == save_index(fs, index)
            IN IF w.raised THEN Failure(w.err, w.fs) ELSE Success("now_active", index, w.fs)

\* mutant: the index is saved before the name is looked up
set_active_saved_first(fs, loaded, experiment_name) ==
    LET index == set_active(loaded, Some(experiment_name))
        w == save_index(fs, index)
    IN IF w.raised THEN Failure(w.err, w.fs)
       ELSE IF experiment_name \notin DOMAIN loaded.experiments
       THEN Failure("does_not_exist", w.fs)
       ELSE Success("now_active", index, w.fs)

\* set_active_experiment after index = io.load_index()
set_active_experiment_loaded(fs, loaded, experiment_name) ==
    IF experiment_name \notin DOMAIN loaded.experiments
    THEN Failure("does_not_exist", fs)
    ELSE LET index == set_active(loaded, Some(experiment_name))
             w == save_index(fs, index)
         IN IF w.raised THEN Failure(w.err, w.fs) ELSE Success("now_active", index, w.fs)

set_active_experiment(fs, experiment_name) ==
    LET l == load_index(fs)
    IN IF l.raised THEN Failure(l.err, fs)
       ELSE set_active_experiment_loaded(fs, Get(l.index), experiment_name)

delete_experiment(fs, experiment_name) ==
    LET l == load_index(fs)
    IN IF l.raised THEN Failure(l.err, fs)
       ELSE IF experiment_name \notin DOMAIN Get(l.index).experiments
       THEN Failure("does_not_exist", fs)
       ELSE LET fs1 == delete_experiment_data(fs, experiment_name)
                index1 == [Get(l.index) EXCEPT !.experiments = MapDel(@, experiment_name)]
                index2 == reset_active_if_removed(index1, experiment_name)
                w == save_index(fs1, index2)
            IN IF w.raised THEN Failure(w.err, w.fs) ELSE Success("deleted", index2, w.fs)

copy_experiment(fs, c, src_experiment_name, dst_experiment_name, now) ==
    LET l == load_index(fs)
    IN IF l.raised THEN Failure(l.err, fs)
       ELSE LET g == load_config(fs, c, src_experiment_name)
            IN IF g.raised THEN Failure(g.err, fs)
               ELSE IF src_experiment_name \notin DOMAIN Get(l.index).experiments
               THEN Failure("key_error", fs)
               ELSE LET src_labels == Get(l.index).experiments[src_experiment_name].labels
                        r == create_experiment_core(fs, c, dst_experiment_name,
                                                    Get(g.config), src_labels, now)
                    IN IF r.raised THEN Failure(r.err, r.fs)
                       ELSE Success("copied", Get(r.index), r.fs)

update_experiment_config(fs, c, experiment_name, config) ==
    LET l == load_index(fs)
    IN IF l.raised THEN Failure(l.err, fs)
       ELSE IF ~validate_config_type(config, c) THEN Failure("type_error", fs)
       ELSE IF experiment_name \notin DOMAIN Get(l.index).experiments
       THEN Failure("not_found", fs)
       ELSE LET s == save_config(fs, experiment_name, config)
            IN IF s.raised THEN Failure(s.err, s.fs)
               ELSE Success("config_updated", Get(l.index), s.fs)

rename_experiment(fs, old_experiment_name, new_experiment_name) ==
    LET l == load_index(fs)
    IN IF l.raised THEN Failure(l.err, fs)
       ELSE IF old_experiment_name \notin DOMAIN Get(l.index).experiments
       THEN Failure("not_found", fs)
       ELSE LET d == rename_experiment_dir(fs, old_experiment_name, new_experiment_name)
            IN IF d.raised THEN Failure(d.err, d.fs)
               ELSE LET index == Get(l.index)
                        metadata == [index.experiments[old_experiment_name] EXCEPT
                                       !.config_path =
                                          relative_to_root(get_config_file(new_experiment_name))]
                        index1 == [index EXCEPT !.experiments =
                                      MapSet(MapDel(@, old_experiment_name),
                                             new_experiment_name, metadata)]
                        index2 == move_active(index1, old_experiment_name,
                                              new_experiment_name)
                        w == save_index(d.fs, index2)
                    IN IF w.raised THEN Failure(w.err, w.fs)
                       ELSE Success("renamed", index2, w.fs)

(***************************************************************************)
(* api/label.py                                                            *)
(***************************************************************************)
\* mutant: the labels are added to the experiment but not registered globally
add_labels_unregistered(fs, experiment_name, labels) ==
    LET l == load_index(fs)
    IN IF l.raised THEN Failure(l.err, fs)
       ELSE IF experiment_name \notin DOMAIN Get(l.index).experiments
       THEN Failure("not_found", fs)
       ELSE IF labels = <<>>
       THEN Success("no_labels_provided", Get(l.index), fs)
       ELSE LET index == Get(l.index)
                index1 == set_labels(index, experiment_name,
                                     index.experiments[experiment_name].labels \o labels)
                w == save_index(fs, index1)
            IN IF w.raised THEN Failure(w.err, w.fs)
               ELSE Success("labels_added", index1, w.fs)

\* mutant: an unknown experiment does not stop the labels being registered
add_labels_registered_anyway(fs, index, experiment_name, labels) ==
    IF labels = <<>>
    THEN Success("no_labels_provided", index, fs)
    ELSE LET index1 == IF experiment_name \in DOMAIN index.experiments
                       THEN set_labels(index, experiment_name,
                                       index.experiments[experiment_name].labels \o labels)
                       ELSE index
             index2 == set_global_labels(index1, index.global_labels \o labels)
             w == save_index(fs, index2)
         IN IF w.raised THEN Failure(w.err, w.fs)
            ELSE Success("labels_added", index2, w.fs)

\* add_labels_to_experiment after index = io.load_index()
add_labels_to_experiment_loaded(fs, index, experiment_name, labels) ==
    IF experiment_name \notin DOMAIN index.experiments
    THEN Failure("not_found", fs)
    ELSE IF labels = <<>>
    THEN Success("no_labels_provided", index, fs)
    ELSE LET current_experiment_labels == index.experiments[experiment_name].labels
             current_global_labels == index.global_labels
             index1 == set_labels(index, experiment_name,
                                  current_experiment_labels \o labels)
             index2 == set_global_labels(index1, current_global_labels \o labels)
             w == save_index(fs, index2)
         IN IF w.raised THEN Failure(w.err, w.fs)
            ELSE Success("labels_added", index2, w.fs)

add_labels_to_experiment(fs, experiment_name, labels) ==
    LET l == load_index(fs)
    IN IF l.raised THEN Failure(l.err, fs)
       ELSE add_labels_to_experiment_loaded(fs, Get(l.index), experiment_name, labels)

\* [label for label in xs if label not in target]
Without(xs, target) == SelectSeq(xs, LAMBDA label : label \notin target)

\* mutant: the labels are removed from the global list only
remove_from_no_experiment(index, target_labels_set) == index

\* remove_global_labels: remove the labels from all experiments
remove_from_experiments(index, target_labels_set) ==
    [index EXCEPT !.experiments =
        [n \in DOMAIN index.experiments |->
            [index.experiments[n] EXCEPT !.labels =
                ensure_unique_list(Without(index.experiments[n].labels,
                                           target_labels_set))]]]

\* mutant: the existence of a requested label is not validated
remove_global_labels_unchecked(fs, labels) ==
    LET l == load_index(fs)
    IN IF l.raised THEN Failure(l.err, fs)
       ELSE LET index == Get(l.index)
                target_labels_set == Range(labels)
                index1 == set_global_labels(index,
                              Without(index.global_labels, target_labels_set))
                index2 == remove_from_experiments(index1, target_labels_set)
                w == save_index(fs, index2)
            IN IF w.raised THEN Failure(w.err, w.fs)
               ELSE Result(TRUE, MsgAbout("labels_removed", labels), Some(index2), w.fs)

\* remove_global_labels after index = io.load_index()
remove_global_labels_loaded(fs, index, labels) ==
    LET target_labels_set == Range(labels)
    IN IF target_labels_set \cap Range(index.global_labels) = {}
       THEN Result(FALSE, MsgAbout("no_labels_to_remove", labels), None, fs)
       ELSE LET index1 == set_global_labels(index,
                             Without(index.global_labels, target_labels_set))
                index2 == remove_from_experiments(index1, target_labels_set)
                w == save_index(fs, index2)
            IN IF w.raised THEN Failure(w.err, w.fs)
               ELSE Result(TRUE, MsgAbout("labels_removed", labels), Some(index2), w.fs)

remove_global_labels(fs, labels) ==
    LET l == load_index(fs)
    IN IF l.raised THEN Failure(l.err, fs)
       ELSE remove_global_labels_loaded(fs, Get(l.index), labels)

\* mutant: one known label is enough
overlaps_global(req_labels_set, global_labels_set) ==
    req_labels_set = {} \/ req_labels_set \cap global_labels_set # {}

\* update_experiment_labels: req_labels_set <= global_labels_set
subset_of_global(req_labels_set, global_labels_set) ==
    req_labels_set \subseteq global_labels_set

update_experiment_labels(fs, experiment_name, labels) ==
    LET l == load_index(fs)
    IN IF l.raised THEN Failure(l.err, fs)
       ELSE IF experiment_name \notin DOMAIN Get(l.index).experiments
       THEN Failure("not_found", fs)
       ELSE LET index == Get(l.index)
                req_labels_set == Range(labels)
                global_labels_set == Range(index.global_labels)
            IN IF ~subset_of_global(req_labels_set, global_labels_set)
               THEN Result(FALSE,
                           [kind |-> "unknown_labels",
                            unknown |-> req_labels_set \ global_labels_set,
                            labels |-> <<>>],
                           None, fs)
               ELSE LET index1 == set_labels(index, experiment_name, labels)
                        w == save_index(fs, index1)
                    IN IF w.raised THEN Failure(w.err, w.fs)
                       ELSE Success("labels_updated", index1, w.fs)

(***************************************************************************)
(* The index loads, index saves and directory operations a core operation  *)
(* performs, in the order of its code: io.load_index, io.save_index, the   *)
(* mkdir of a new experiment directory (inside io.save_config),            *)
(* shutil.rmtree and Path.rename.                                          *)
(***************************************************************************)
\* _create_experiment_core
io_create_experiment_core(fs, c, experiment_name, config) ==
    IF ~validate_config_type(config, c) THEN <<>>
    ELSE IF path_exists(fs, get_experiment_dir(experiment_name)) THEN <<>>
    ELSE <<"load_index">> \o
         (IF load_index(fs).raised THEN <<>>
          ELSE <<"make_dir">> \o
               (IF save_config(fs, experiment_name, config).raised THEN <<>>
                ELSE <<"save_index">>))

io_create_experiment(fs, c, experiment_name, config) ==
    io_create_experiment_core(fs, c, experiment_name,
                              IF config = None THEN c.default_config ELSE Get(config))

io_set_active_experiment(fs, experiment_name) ==
    <<"load_index">> \o
    (IF load_index(fs).raised THEN <<>>
     ELSE IF experiment_name \notin DOMAIN Get(load_index(fs).index).experiments THEN <<>>
     ELSE <<"save_index">>)

io_delete_experiment(fs, experiment_name) ==
    <<"load_index">> \o
    (IF load_index(fs).raised THEN <<>>
     ELSE IF experiment_name \notin DOMAIN Get(load_index(fs).index).experiments THEN <<>>
     ELSE (IF path_exists(fs, get_experiment_dir(experiment_name))
              /\ is_dir(fs, get_experiment_dir(experiment_name))
           THEN <<"remove_dir">> ELSE <<>>) \o <<"save_index">>)

\* mutant: copy_experiment hands its index on instead of loading it again
io_copy_without_reload(fs, c, src_experiment_name, dst_experiment_name) ==
    <<"load_index">> \o
    (IF load_index(fs).raised THEN <<>>
     ELSE IF load_config(fs, c, src_experiment_name).raised THEN <<>>
     ELSE IF src_experiment_name \notin DOMAIN Get(load_index(fs).index).experiments
     THEN <<>>
     ELSE SelectSeq(io_create_experiment_core(fs, c, dst_experiment_name,
                        Get(load_config(fs, c, src_experiment_name).config)),
                    LAMBDA ev : ev # "load_index"))

io_copy_experiment(fs, c, src_experiment_name, dst_experiment_name) ==
    <<"load_index">> \o
    (IF load_index(fs).raised THEN <<>>
     ELSE IF load_config(fs, c, src_experiment_name).raised THEN <<>>
     ELSE IF src_experiment_name \notin DOMAIN Get(load_index(fs).index).experiments
     THEN <<>>
     ELSE io_create_experiment_core(fs, c, dst_experiment_name,
              Get(load_config(fs, c, src_experiment_name).config)))

io_update_experiment_config(fs, c, experiment_name, config) == <<"load_index">>

io_rename_experiment(fs, old_experiment_name, new_experiment_name) ==
    <<"load_index">> \o
    (IF load_index(fs).raised THEN <<>>
     ELSE IF old_experiment_name \notin DOMAIN Get(load_index(fs).index).experiments
     THEN <<>>
     ELSE IF ~path_exists(fs, get_experiment_dir(old_experiment_name)) THEN <<>>
     ELSE IF path_exists(fs, get_experiment_dir(new_experiment_name)) THEN <<>>
     ELSE <<"rename_dir">> \o
          (IF rename_experiment_dir(fs, old_experiment_name, new_experiment_name).raised
           THEN <<>> ELSE <<"save_index">>))

io_add_labels_to_experiment(fs, experiment_name, labels) ==
    <<"load_index">> \o
    (IF load_index(fs).raised THEN <<>>
     ELSE IF experiment_name \notin DOMAIN Get(load_index(fs).index).experiments THEN <<>>
     ELSE IF labels = <<>> THEN <<>>
     ELSE <<"save_index">>)

io_remove_global_labels(fs, labels) ==
    <<"load_index">> \o
    (IF load_index(fs).raised THEN <<>>
     ELSE IF Range(labels) \cap Range(Get(load_index(fs).index).global_labels) = {}
     THEN <<>>
     ELSE <<"save_index">>)

io_update_experiment_labels(fs, experiment_name, labels) ==
    <<"load_index">> \o
    (IF load_index(fs).raised THEN <<>>
     ELSE IF experiment_name \notin DOMAIN Get(load_index(fs).index).experiments THEN <<>>
     ELSE IF ~subset_of_global(Range(labels),
                               Range(Get(load_index(fs).index).global_labels))
     THEN <<>>
     ELSE <<"save_index">>)

(***************************************************************************)
(* The read operations: api/label.py, api/experiment.py, api/index.py.     *)
(***************************************************************************)
\* what a read operation hands back besides the response fields
NoPayload == [usage |-> EmptyMap, label_map |-> EmptyMap, config |-> None]

ReadResult(ok, msg, idx, payload) ==
    [is_success |-> ok, message |-> msg, current_index |-> idx, payload |-> payload]
ReadFailure(kind) == ReadResult(FALSE, Msg(kind), None, NoPayload)

\* mutant: no experiment is recorded as a user of a label
record_no_usage(usage, label, experiment_name) == usage

\* get_label_usage: if label in usage: usage[label].append(experiment_name)
record_usage(usage, label, experiment_name) ==
    IF label \in DOMAIN usage
    THEN [usage EXCEPT ![label] = Append(@, experiment_name)]
    ELSE usage

\* for label in meta.labels: ...
RECURSIVE scan_labels(_, _, _)
scan_labels(usage, labels, experiment_name) ==
    IF labels = <<>> THEN usage
    ELSE scan_labels(record_usage(usage, Head(labels), experiment_name),
                     Tail(labels), experiment_name)

\* for experiment_name, meta in index.experiments.items(): ...   The order of
\* the items only decides the order inside each list of names.
RECURSIVE scan_experiments(_, _, _)
scan_experiments(usage, experiments, names) ==
    IF names = {} THEN usage
    ELSE LET experiment_name == CHOOSE n \in names : TRUE
         IN scan_experiments(
                scan_labels(usage, experiments[experiment_name].labels, experiment_name),
                experiments, names \ {experiment_name})

get_label_usage(fs) ==
    LET l == load_index(fs)
    IN IF l.raised THEN ReadFailure(l.err)
       ELSE LET index == Get(l.index)
                usage == [label \in Range(index.global_labels) |-> <<>>]
            IN ReadResult(TRUE, Msg("usage_retrieved"), None,
                          [NoPayload EXCEPT !.usage =
                              scan_experiments(usage, index.experiments,
                                               DOMAIN index.experiments)])

\* mutant: every global label is reported as carried
carries_always(label, experiment_labels) == TRUE

\* get_experiment_label_map: label in experiment_labels
carries(label, experiment_labels) == label \in Range(experiment_labels)

get_experiment_label_map(fs, experiment_name) ==
    LET l == load_index(fs)
    IN IF l.raised THEN ReadFailure(l.err)
       ELSE IF experiment_name \notin DOMAIN Get(l.index).experiments
       THEN ReadFailure("not_found")
       ELSE LET index == Get(l.index)
                experiment_labels == index.experiments[experiment_name].labels
                label_map == [label \in Range(index.global_labels) |->
                                 carries(label, experiment_labels)]
            IN ReadResult(TRUE, Msg("label_map_retrieved"), None,
                          [NoPayload EXCEPT !.label_map = label_map])

get_experiment_config(fs, c, experiment_name) ==
    LET l == load_index(fs)
    IN IF l.raised THEN ReadFailure(l.err)
       ELSE LET g == load_config(fs, c, experiment_name)
            IN IF g.raised THEN ReadFailure(g.err)
               ELSE ReadResult(TRUE, Msg("config_retrieved"), l.index,
                               [NoPayload EXCEPT !.config = g.config])

get_index(fs) ==
    LET l == load_index(fs)
    IN IF l.raised THEN ReadFailure(l.err)
       ELSE ReadResult(TRUE, Msg("index_obtained"), l.index, NoPayload)

(***************************************************************************)
(* manager.py: ExperimentManager                                           *)
(***************************************************************************)
\* what the caller of a manager method observes: the method, whether an
\* exception escaped it (raised), and the response record otherwise
Observed(op, raised, res) ==
    [op |-> op, raised |-> raised, is_success |-> res.is_success,
     message |-> res.message, current_index |-> res.current_index,
     payload |-> NoPayload]

\* the same for a read method, whose response carries what was read
ObservedRead(op, res) == [Observed(op, FALSE, res) EXCEPT !.payload = res.payload]

\* building the request model raised pydantic's ValidationError
Escaped == [is_success |-> FALSE, message |-> Msg("ValidationError"),
            current_index |-> None]

\* mutant: the cache is never replaced
keep_cache(index, res) == index

\* mutant: a response without an index empties the cache
update_state_or_clear(index, res) ==
    IF res.current_index # None THEN Get(res.current_index) ELSE ExperimentIndex

\* ExperimentManager._update_state
update_state(index, res) ==
    IF res.is_success /\ res.current_index # None THEN Get(res.current_index) ELSE index

\* a manager method that builds its request, calls the core and updates the cache
Serve(op, res) ==
    /\ dirs' = res.fs.dirs
    /\ files' = res.fs.files
    /\ cache' = update_state(cache, res)
    /\ response' = Observed(op, FALSE, res)
    /\ UNCHANGED <<ctx, inflight>>

\* the request's field validator raised: nothing was called
Reject(op) ==
    /\ response' = Observed(op, TRUE, Escaped)
    /\ UNCHANGED <<ctx, dirs, files, cache, inflight>>

mgr_create_experiment(name, config, now) ==
    IF validate_safe_name(name)
    THEN Serve("create", create_experiment(FS, ctx, name, config, now))
    ELSE Reject("create")

mgr_set_active_experiment(name) ==
    Serve("set_active", set_active_experiment(FS, name))

mgr_delete_experiment(name) ==
    Serve("delete", delete_experiment(FS, name))

mgr_copy_experiment(src_name, dst_name, now) ==
    IF validate_safe_name(dst_name)
    THEN Serve("copy", copy_experiment(FS, ctx, src_name, dst_name, now))
    ELSE Reject("copy")

mgr_update_experiment_config(name, config) ==
    Serve("update_config", update_experiment_config(FS, ctx, name, config))

mgr_rename_experiment(old_name, new_name) ==
    IF validate_safe_name(new_name)
    THEN Serve("rename", rename_experiment(FS, old_name, new_name))
    ELSE Reject("rename")

mgr_add_labels_to_experiment(experiment_name, labels) ==
    Serve("add_labels", add_labels_to_experiment(FS, experiment_name, labels))

mgr_remove_global_labels(labels) ==
    Serve("remove_global_labels", remove_global_labels(FS, labels))

mgr_update_experiment_labels(experiment_name, labels) ==
    Serve("update_labels", update_experiment_labels(FS, experiment_name, labels))

\* a read method: builds its request, calls the core, returns the response
Read(op, res) ==
    /\ response' = ObservedRead(op, res)
    /\ UNCHANGED <<ctx, dirs, files, cache, inflight>>

mgr_get_experiment_config(name) ==
    Read("get_config", get_experiment_config(FS, ctx, name))

mgr_get_label_usage == Read("get_label_usage", get_label_usage(FS))

mgr_get_experiment_label_map(name) ==
    Read("get_label_map", get_experiment_label_map(FS, name))

\* ExperimentManager.refresh: get_index, then _update_state; the response of
\* get_index is kept as what the call produced
mgr_refresh ==
    LET res == get_index(FS)
    IN /\ cache' = update_state(cache, res)
       /\ response' = ObservedRead("refresh", res)
       /\ UNCHANGED <<ctx, dirs, files, inflight>>

\* mutant: without an active experiment, some experiment is taken
resolve_some_experiment(index) ==
    IF index.active_experiment # None /\ Get(index.active_experiment) # <<>>
    THEN index.active_experiment
    ELSE IF DOMAIN index.experiments # {}
    THEN Some(CHOOSE n \in DOMAIN index.experiments : TRUE)
    ELSE None

\* if name := self.active_experiment: the cached active experiment when it is
\* truthy (an empty name is not)
resolve_active(index) ==
    IF index.active_experiment # None /\ Get(index.active_experiment) # <<>>
    THEN index.active_experiment
    ELSE None

\* Response...(is_success=False, message="No active experiment set.")
NoActive(op) ==
    /\ response' = Observed(op, FALSE,
                            [is_success |-> FALSE, message |-> Msg("no_active_experiment"),
                             current_index |-> None])
    /\ UNCHANGED <<ctx, dirs, files, cache, inflight>>

mgr_update_active_experiment_config(config) ==
    LET name == resolve_active(cache)
    IN IF name # None THEN mgr_update_experiment_config(Get(name), config)
       ELSE NoActive("update_active_config")

mgr_rename_active_experiment(new_name) ==
    LET old_name == resolve_active(cache)
    IN IF old_name # None THEN mgr_rename_experiment(Get(old_name), new_name)
       ELSE NoActive("rename_active")

mgr_get_active_experiment_config ==
    LET name == resolve_active(cache)
    IN IF name # None THEN mgr_get_experiment_config(Get(name))
       ELSE NoActive("get_active_config")

mgr_add_labels_to_active_experiment(labels) ==
    LET experiment_name == resolve_active(cache)
    IN IF experiment_name # None
       THEN mgr_add_labels_to_experiment(Get(experiment_name), labels)
       ELSE NoActive("add_labels_to_active")

mgr_update_active_experiment_labels(labels) ==
    LET experiment_name == resolve_active(cache)
    IN IF experiment_name # None
       THEN mgr_update_experiment_labels(Get(experiment_name), labels)
       ELSE NoActive("update_active_labels")

mgr_get_active_experiment_label_map ==
    LET name == resolve_active(cache)
    IN IF name # None THEN mgr_get_experiment_label_map(Get(name))
       ELSE NoActive("get_active_label_map")

(***************************************************************************)
(* The specifications: a manager built on a fresh storage root, then any   *)
(* sequence of its methods, with arguments drawn from the given sets.      *)
(***************************************************************************)
\* the other processes that call the core API on the same storage root, and
\* what one of them holds between the steps of a call: the operation and
\* its arguments (for a copy, the labels and the config read from the
\* source), the index it loaded, and, once it has finished, the index that
\* was in the file when it saved and the is_success of its response
Procs == {"p1", "p2"}
Idle == [pc |-> "idle", op |-> "none", name |-> <<>>, labels |-> <<>>,
         index |-> None, replaced |-> None, config |-> None, ok |-> None]

\* ExperimentManager(ctx): __init__ calls refresh(), which caches get_index()
Init ==
    /\ ctx = ExperimentContext(BaseModelConfig("v1"))
    /\ dirs = {}
    /\ files = EmptyMap
    /\ cache = ExperimentIndex
    /\ inflight = [p \in Procs |-> Idle]
    /\ response = Observed("init", FALSE,
                           [is_success |-> TRUE, message |-> Msg("index_obtained"),
                            current_index |-> Some(ExperimentIndex)])

Create(N, C, T) == \E name \in N, config \in C, now \in T :
                       mgr_create_experiment(name, config, now)
SetActive(N) == \E name \in N : mgr_set_active_experiment(name)
Delete(N) == \E name \in N : mgr_delete_experiment(name)
Copy(N, T) == \E src \in N, dst \in N, now \in T : mgr_copy_experiment(src, dst, now)
UpdateConfig(N, C) == \E name \in N, config \in C :
                          mgr_update_experiment_config(name, Get(config))
Rename(N) == \E old \in N, new \in N : mgr_rename_experiment(old, new)
AddLabels(N, L) == \E name \in N, labels \in L :
                       mgr_add_labels_to_experiment(name, labels)
RemoveGlobalLabels(L) == \E labels \in L : mgr_remove_global_labels(labels)
UpdateLabels(N, L) == \E name \in N, labels \in L :
                          mgr_update_experiment_labels(name, labels)

GetExperimentConfig(N) == \E name \in N : mgr_get_experiment_config(name)
GetLabelUsage == mgr_get_label_usage
GetExperimentLabelMap(N) == \E name \in N : mgr_get_experiment_label_map(name)
Refresh == mgr_refresh

UpdateActiveConfig(C) == \E config \in C : mgr_update_active_experiment_config(Get(config))
RenameActive(N) == \E new \in N : mgr_rename_active_experiment(new)
GetActiveConfig == mgr_get_active_experiment_config
AddLabelsToActive(L) == \E labels \in L : mgr_add_labels_to_active_experiment(labels)
UpdateActiveLabels(L) == \E labels \in L : mgr_update_active_experiment_labels(labels)
GetActiveLabelMap == mgr_get_active_experiment_label_map

\* the label lists over the labels S that a request can carry
LabelLists(S) == UNION {[1..k -> S] : k \in 0..MaxReqLabels}

\* Spec: every kind of experiment name (the empty name, two ordinary names,
\* the name of the index file, a name with a space), one label, two clock
\* readings.
UnsafeName == <<"a", " ">>
\* another spelling of the directory of "a"
AliasName == <<"a", "/">>
ExpNames == {<<>>, <<"a">>, <<"b">>, IndexFileName, UnsafeName}
ConfigArgs == {None, Some(BaseModelConfig("v1")), Some(ConfigClass("v1"))}
OneLabel == {"x"}

Next ==
    \/ Create(ExpNames, ConfigArgs, Times)
    \/ SetActive(ExpNames)
    \/ Delete(ExpNames)
    \/ Copy(ExpNames, Times)
    \/ UpdateConfig(ExpNames, ConfigArgs \ {None})
    \/ Rename(ExpNames)
    \/ AddLabels(ExpNames, LabelLists(OneLabel))
    \/ RemoveGlobalLabels(LabelLists(OneLabel))
    \/ UpdateLabels(ExpNames, LabelLists(OneLabel))
    \/ GetExperimentConfig(ExpNames \cup {AliasName})
    \/ GetLabelUsage
    \/ GetExperimentLabelMap(ExpNames)
    \/ Refresh
    \/ UpdateActiveConfig(ConfigArgs \ {None})
    \/ RenameActive(ExpNames)
    \/ GetActiveConfig
    \/ AddLabelsToActive(LabelLists(OneLabel))
    \/ UpdateActiveLabels(LabelLists(OneLabel))
    \/ GetActiveLabelMap

Spec == Init /\ [][Next]_vars

\* SpecLabels: two ordinary experiment names, two labels in every order and
\* with repetitions, one clock reading.
LabelNames == {<<"a">>, <<"b">>}
OneTime == {"t1"}

NextLabels ==
    \/ Create(LabelNames, {None}, OneTime)
    \/ SetActive(LabelNames)
    \/ Delete(LabelNames)
    \/ Copy(LabelNames, OneTime)
    \/ UpdateConfig(LabelNames, {Some(BaseModelConfig("v1"))})
    \/ Rename(LabelNames)
    \/ AddLabels(LabelNames, LabelLists(Labels))
    \/ RemoveGlobalLabels(LabelLists(Labels))
    \/ UpdateLabels(LabelNames, LabelLists(Labels))
    \/ GetExperimentConfig(LabelNames)
    \/ GetLabelUsage
    \/ GetExperimentLabelMap(LabelNames)
    \/ Refresh
    \/ UpdateActiveConfig({Some(BaseModelConfig("v1"))})
    \/ RenameActive(LabelNames)
    \/ GetActiveConfig
    \/ AddLabelsToActive(LabelLists(Labels))
    \/ UpdateActiveLabels(LabelLists(Labels))
    \/ GetActiveLabelMap

SpecLabels == Init /\ [][NextLabels]_vars

\* SpecConfigs: the empty name and two ordinary names, configs with two
\* different contents, one label, one clock reading.
ConfigNames == {<<>>, <<"a">>, <<"b">>}
NewConfigArgs == {Some(BaseModelConfig(v)) : v \in ConfigVals} \cup {Some(ConfigClass("v1"))}

NextConfigs ==
    \/ Create(ConfigNames, {None, Some(BaseModelConfig("v2"))}, OneTime)
    \/ SetActive(ConfigNames)
    \/ Delete(ConfigNames)
    \/ Copy(ConfigNames, OneTime)
    \/ UpdateConfig(ConfigNames, NewConfigArgs)
    \/ Rename(ConfigNames)
    \/ AddLabels(ConfigNames, LabelLists(OneLabel))
    \/ RemoveGlobalLabels(LabelLists(OneLabel))
    \/ UpdateLabels(ConfigNames, LabelLists(OneLabel))
    \/ GetExperimentConfig(ConfigNames)
    \/ GetLabelUsage
    \/ GetExperimentLabelMap(ConfigNames)
    \/ Refresh
    \/ UpdateActiveConfig(NewConfigArgs)
    \/ RenameActive(ConfigNames)
    \/ GetActiveConfig
    \/ AddLabelsToActive(LabelLists(OneLabel))
    \/ UpdateActiveLabels(LabelLists(OneLabel))
    \/ GetActiveLabelMap

SpecConfigs == Init /\ [][NextConfigs]_vars

\* SpecKinds: two names, a context whose default config is of either kind,
\* configs of both kinds in create and update_config.
KindNames == {<<"a">>, <<"b">>}
KindConfigArgs == {Some(BaseModelConfig("v2")), Some(ConfigClass("v2"))}

InitKinds ==
    /\ \E default \in {BaseModelConfig("v1"), ConfigClass("v1")} :
           ctx = ExperimentContext(default)
    /\ dirs = {}
    /\ files = EmptyMap
    /\ cache = ExperimentIndex
    /\ inflight = [p \in Procs |-> Idle]
    /\ response = Observed("init", FALSE,
                           [is_success |-> TRUE, message |-> Msg("index_obtained"),
                            current_index |-> Some(ExperimentIndex)])

NextKinds ==
    \/ Create(KindNames, {None} \cup KindConfigArgs, OneTime)
    \/ SetActive(KindNames)
    \/ Delete(KindNames)
    \/ Copy(KindNames, OneTime)
    \/ UpdateConfig(KindNames, KindConfigArgs)
    \/ Rename(KindNames)
    \/ AddLabels(KindNames, LabelLists(OneLabel))
    \/ RemoveGlobalLabels(LabelLists(OneLabel))
    \/ UpdateLabels(KindNames, LabelLists(OneLabel))
    \/ GetExperimentConfig(KindNames)
    \/ GetLabelUsage
    \/ GetExperimentLabelMap(KindNames)
    \/ Refresh
    \/ UpdateActiveConfig(KindConfigArgs)
    \/ RenameActive(KindNames)
    \/ GetActiveConfig
    \/ AddLabelsToActive(LabelLists(OneLabel))
    \/ UpdateActiveLabels(LabelLists(OneLabel))
    \/ GetActiveLabelMap

SpecKinds == InitKinds /\ [][NextKinds]_vars

(***************************************************************************)
(* Properties.                                                             *)
(***************************************************************************)
\* the index a load_index() of the given files returns
IndexOf(f) == IF experiment_index_file \in DOMAIN f
              THEN model_validate(f[experiment_index_file]) ELSE ExperimentIndex
PersistedIndex == IndexOf(files)
Keys(index) == DOMAIN index.experiments
LabelsOf(index, n) == index.experiments[n].labels
FSNext == [dirs |-> dirs', files |-> files']
Count(x, xs) == Cardinality({i \in 1..Len(xs) : xs[i] = x})
NoDuplicates(xs) == \A i, j \in 1..Len(xs) : xs[i] = xs[j] => i = j
FirstIndex(x, xs) == CHOOSE i \in 1..Len(xs) : xs[i] = x /\ \A j \in 1..(i - 1) : xs[j] # x
\* r lists every element of xs once, in the order of first occurrence
IsDeduplicated(r, xs) ==
    /\ NoDuplicates(r)
    /\ Range(r) = Range(xs)
    /\ \A i, j \in 1..Len(r) : i < j => FirstIndex(r[i], xs) < FirstIndex(r[j], xs)
MatchesSchema(config) == config = None \/ validate_config_type(Get(config), ctx)
\* "already exists" occurs in the message
SaysAlreadyExists(message) == message.kind \in {"already_exists", "destination_exists"}

\* C1 (referential integrity): in the persisted index, every label of every
\* experiment is a member of global_labels, after any sequence of operations.
C1_ReferentialIntegrity ==
    \A n \in Keys(PersistedIndex) :
        Range(LabelsOf(PersistedIndex, n)) \subseteq Range(PersistedIndex.global_labels)

\* C1 witness: a copy succeeded and two experiments carry both labels.
C1_Witness ==
    /\ response.op = "copy"
    /\ response.is_success
    /\ \E n, m \in Keys(PersistedIndex) :
           /\ n # m
           /\ Range(LabelsOf(PersistedIndex, n)) = Labels
           /\ Range(LabelsOf(PersistedIndex, m)) = Labels

\* C2 (active reference): in the persisted index, active_experiment is None
\* or a key of experiments.
C2_ActiveReference ==
    \/ PersistedIndex.active_experiment = None
    \/ Get(PersistedIndex.active_experiment) \in Keys(PersistedIndex)

\* C2 witness: a rename succeeded, an experiment is active and another exists.
C2_Witness ==
    /\ response.op = "rename"
    /\ response.is_success
    /\ PersistedIndex.active_experiment # None
    /\ Cardinality(Keys(PersistedIndex)) >= 2

\* C3 (create succeeds): create(name, config) with a safe name that is neither
\* a key of experiments nor present as a directory (here: nothing at all
\* exists at its path), and a schema-matching config, succeeds; afterwards name is an experiment with empty labels and is
\* active in the index file and in the cache, its config file and the index
\* file exist, and the other experiments and global_labels are unchanged.
C3_CreateSucceeds ==
    [][\A name \in ExpNames, config \in ConfigArgs, now \in Times :
        ( /\ response'.op = "create"
          /\ mgr_create_experiment(name, config, now)
          /\ validate_safe_name(name)
          /\ name \notin Keys(PersistedIndex)
          /\ ~path_exists(FS, get_experiment_dir(name))
          /\ MatchesSchema(config) )
        => ( /\ response'.is_success
             /\ name \in Keys(IndexOf(files'))
             /\ LabelsOf(IndexOf(files'), name) = <<>>
             /\ IndexOf(files').active_experiment = Some(name)
             /\ cache'.active_experiment = Some(name)
             /\ get_config_file(name) \in DOMAIN files'
             /\ experiment_index_file \in DOMAIN files'
             /\ \A m \in Keys(PersistedIndex) \ {name} :
                    /\ m \in Keys(IndexOf(files'))
                    /\ IndexOf(files').experiments[m] = PersistedIndex.experiments[m]
             /\ IndexOf(files').global_labels = PersistedIndex.global_labels )
      ]_vars

\* C4 (duplicate create fails): whenever name is a key of experiments,
\* create(name, ...) (here: with a schema-matching config) fails with a
\* message containing "already exists" and leaves the index unchanged.
C4_DuplicateCreateFails ==
    [][\A name \in ExpNames, config \in ConfigArgs, now \in Times :
        ( /\ response'.op = "create"
          /\ mgr_create_experiment(name, config, now)
          /\ name \in Keys(PersistedIndex)
          /\ MatchesSchema(config) )
        => ( /\ ~response'.is_success
             /\ SaysAlreadyExists(response'.message)
             /\ IndexOf(files') = PersistedIndex )
      ]_vars

\* C5 (rename preserves identity): after a successful rename(old, new), new
\* is a key with the created_at and labels old had, old is no key, the number
\* of experiments is unchanged, and active_experiment is new if it was old and
\* unchanged otherwise.
C5_RenamePreservesIdentity ==
    [][\A old \in ExpNames, new \in ExpNames :
        ( /\ response'.op = "rename"
          /\ mgr_rename_experiment(old, new)
          /\ response'.is_success )
        => ( /\ new \in Keys(IndexOf(files'))
             /\ IndexOf(files').experiments[new].created_at
                    = PersistedIndex.experiments[old].created_at
             /\ LabelsOf(IndexOf(files'), new) = LabelsOf(PersistedIndex, old)
             /\ old \notin Keys(IndexOf(files'))
             /\ Cardinality(Keys(IndexOf(files'))) = Cardinality(Keys(PersistedIndex))
             /\ IndexOf(files').active_experiment
                    = IF PersistedIndex.active_experiment = Some(old)
                      THEN Some(new) ELSE PersistedIndex.active_experiment )
      ]_vars

\* C6 (delete resets active): a successful delete(name) sets active_experiment
\* to None when name was active and leaves it unchanged otherwise.
C6_DeleteResetsActive ==
    [][\A name \in ExpNames :
        ( /\ response'.op = "delete"
          /\ mgr_delete_experiment(name)
          /\ response'.is_success )
        => IndexOf(files').active_experiment
               = IF PersistedIndex.active_experiment = Some(name)
                 THEN None ELSE PersistedIndex.active_experiment
      ]_vars

\* C6 witness: a delete succeeded, no experiment is active and one remains.
C6_Witness ==
    /\ response.op = "delete"
    /\ response.is_success
    /\ PersistedIndex.active_experiment = None
    /\ Keys(PersistedIndex) # {}

\* C7 (delete frame): after a successful delete(name), name is no key and its
\* directory does not exist (here: its config file is gone and, unless the
\* directory is the experiment root itself, nothing exists at its path), while
\* every other experiment's metadata, every other experiment directory with
\* its config file, and global_labels are unchanged.
C7_DeleteFrame ==
    [][\A name \in ExpNames :
        ( /\ response'.op = "delete"
          /\ mgr_delete_experiment(name)
          /\ response'.is_success )
        => ( /\ name \notin Keys(IndexOf(files'))
             /\ get_config_file(name) \notin DOMAIN files'
             /\ get_experiment_dir(name) # experiment_root
                    => ~path_exists(FSNext, get_experiment_dir(name))
             /\ \A m \in Keys(PersistedIndex) \ {name} :
                    /\ m \in Keys(IndexOf(files'))
                    /\ IndexOf(files').experiments[m] = PersistedIndex.experiments[m]
             /\ \A m \in ExpNames \ {name} :
                    /\ is_dir(FSNext, get_experiment_dir(m)) = is_dir(FS, get_experiment_dir(m))
                    /\ (get_config_file(m) \in DOMAIN files')
                           = (get_config_file(m) \in DOMAIN files)
                    /\ get_config_file(m) \in DOMAIN files
                           => files'[get_config_file(m)] = files[get_config_file(m)]
             /\ IndexOf(files').global_labels = PersistedIndex.global_labels )
      ]_vars

\* C8 (subset enforcement): update_experiment_labels(name, labels) on an
\* existing experiment fails, naming the unknown labels and leaving the index
\* unchanged, when a requested label is not in global_labels; otherwise it
\* succeeds, the experiment's labels become the requested labels
\* de-duplicated, and global_labels and the other experiments are unchanged.
C8_SubsetEnforcement ==
    [][\A name \in LabelNames, labels \in LabelLists(Labels) :
        ( /\ response'.op = "update_labels"
          /\ mgr_update_experiment_labels(name, labels)
          /\ name \in Keys(PersistedIndex) )
        => IF \E l \in Range(labels) : l \notin Range(PersistedIndex.global_labels)
           THEN /\ ~response'.is_success
                /\ response'.message.kind = "unknown_labels"
                /\ response'.message.unknown
                       = {l \in Range(labels) : l \notin Range(PersistedIndex.global_labels)}
                /\ IndexOf(files') = PersistedIndex
           ELSE /\ response'.is_success
                /\ Keys(IndexOf(files')) = Keys(PersistedIndex)
                /\ IsDeduplicated(LabelsOf(IndexOf(files'), name), labels)
                /\ IndexOf(files').global_labels = PersistedIndex.global_labels
                /\ IndexOf(files').active_experiment = PersistedIndex.active_experiment
                /\ \A m \in Keys(PersistedIndex) \ {name} :
                       IndexOf(files').experiments[m] = PersistedIndex.experiments[m]
      ]_vars

\* C8 witness: an update was refused for an unknown label while another label
\* is known globally.
C8_Witness ==
    /\ response.op = "update_labels"
    /\ ~response.is_success
    /\ response.message.kind = "unknown_labels"
    /\ response.message.unknown # {}
    /\ PersistedIndex.global_labels # <<>>

\* C9 (idempotence of label add): registering a label L twice, by
\* add_labels_to_experiment(name, [L]) on an existing experiment, succeeds both
\* times, leaves L exactly once in global_labels, and the index after the
\* second call equals the index after the first.
C9_AddLabelIdempotent ==
    [][\A name \in LabelNames, L \in Labels :
        ( /\ response'.op = "add_labels"
          /\ mgr_add_labels_to_experiment(name, <<L>>)
          /\ name \in Keys(PersistedIndex) )
        => LET second == add_labels_to_experiment(FSNext, name, <<L>>)
           IN /\ response'.is_success
              /\ second.is_success
              /\ Count(L, IndexOf(files').global_labels) = 1
              /\ Count(L, IndexOf(second.fs.files).global_labels) = 1
              /\ IndexOf(second.fs.files) = IndexOf(files')
      ]_vars

\* C9 witness: labels were added and both labels are registered globally.
C9_Witness ==
    /\ response.op = "add_labels"
    /\ response.is_success
    /\ response.message.kind = "labels_added"
    /\ Range(PersistedIndex.global_labels) = Labels

\* C10 (cascade on global label removal): after a successful
\* remove_global_labels(labels), no requested label is in global_labels or in
\* any experiment's labels, every other label stays where it was, and the keys
\* of experiments and active_experiment are unchanged.
C10_RemovalCascades ==
    [][\A labels \in LabelLists(Labels) :
        ( /\ response'.op = "remove_global_labels"
          /\ mgr_remove_global_labels(labels)
          /\ response'.is_success )
        => ( /\ Keys(IndexOf(files')) = Keys(PersistedIndex)
             /\ IndexOf(files').active_experiment = PersistedIndex.active_experiment
             /\ \A l \in Labels :
                    /\ l \in Range(IndexOf(files').global_labels)
                           <=> (l \in Range(PersistedIndex.global_labels)
                                /\ l \notin Range(labels))
                    /\ \A n \in Keys(PersistedIndex) :
                           l \in Range(LabelsOf(IndexOf(files'), n))
                               <=> (l \in Range(LabelsOf(PersistedIndex, n))
                                    /\ l \notin Range(labels)) )
      ]_vars

\* C10 witness: a removal succeeded and left a label on an experiment.
C10_Witness ==
    /\ response.op = "remove_global_labels"
    /\ response.is_success
    /\ response.message.kind = "labels_removed"
    /\ PersistedIndex.global_labels # <<>>
    /\ \E n \in Keys(PersistedIndex) : LabelsOf(PersistedIndex, n) # <<>>

\* C11 (removal of unknown labels fails): remove_global_labels(labels) fails
\* and leaves the index unchanged when no requested label is in global_labels
\* (an empty request included); it succeeds when at least one requested label
\* is in global_labels.
C11_RemoveNeedsKnownLabel ==
    [][\A labels \in LabelLists(Labels) :
        ( /\ response'.op = "remove_global_labels"
          /\ mgr_remove_global_labels(labels) )
        => IF Range(labels) \cap Range(PersistedIndex.global_labels) = {}
           THEN /\ ~response'.is_success
                /\ files' = files
                /\ IndexOf(files') = PersistedIndex
           ELSE response'.is_success
      ]_vars

\* C11 witness: a removal was refused although a label is registered.
C11_Witness ==
    /\ response.op = "remove_global_labels"
    /\ ~response.is_success
    /\ response.message.kind = "no_labels_to_remove"
    /\ PersistedIndex.global_labels # <<>>

\* C12 (add_labels unions): add_labels_to_experiment(name, labels) on an
\* existing experiment with non-empty labels succeeds, makes the experiment's
\* label set its old labels united with labels and global_labels the old
\* global_labels united with labels, and changes nothing else in the index;
\* with empty labels it succeeds and leaves the index unchanged.
C12_AddLabelsUnions ==
    [][\A name \in LabelNames, labels \in LabelLists(Labels) :
        ( /\ response'.op = "add_labels"
          /\ name \in Keys(PersistedIndex)
          /\ mgr_add_labels_to_experiment(name, labels) )
        => IF labels = <<>>
           THEN /\ response'.is_success
                /\ IndexOf(files') = PersistedIndex
           ELSE /\ response'.is_success
                /\ Keys(IndexOf(files')) = Keys(PersistedIndex)
                /\ Range(LabelsOf(IndexOf(files'), name))
                       = Range(LabelsOf(PersistedIndex, name)) \cup Range(labels)
                /\ Range(IndexOf(files').global_labels)
                       = Range(PersistedIndex.global_labels) \cup Range(labels)
                /\ IndexOf(files').active_experiment = PersistedIndex.active_experiment
                /\ IndexOf(files').experiments[name].created_at
                       = PersistedIndex.experiments[name].created_at
                /\ IndexOf(files').experiments[name].config_path
                       = PersistedIndex.experiments[name].config_path
                /\ \A m \in Keys(PersistedIndex) \ {name} :
                       IndexOf(files').experiments[m] = PersistedIndex.experiments[m]
      ]_vars

\* C12 witness: labels were added, one experiment carries every label and
\* another carries none.
C12_Witness ==
    /\ response.op = "add_labels"
    /\ response.is_success
    /\ response.message.kind = "labels_added"
    /\ \E n, m \in Keys(PersistedIndex) :
           /\ Range(LabelsOf(PersistedIndex, n)) = Labels
           /\ LabelsOf(PersistedIndex, m) = <<>>

\* C13 (copy): copy(src, dst) with src a key of experiments and dst safe and
\* absent (no key, nothing at its path) succeeds; afterwards dst is a key
\* with the labels of src and a config file equal to that of src, dst is the
\* active experiment, and the metadata of src, the config file of src and
\* global_labels are unchanged.
C13_CopyDuplicates ==
    [][\A src \in ExpNames, dst \in ExpNames, now \in Times :
        ( /\ response'.op = "copy"
          /\ src \in Keys(PersistedIndex)
          /\ validate_safe_name(dst)
          /\ dst \notin Keys(PersistedIndex)
          /\ ~path_exists(FS, get_experiment_dir(dst))
          /\ mgr_copy_experiment(src, dst, now) )
        => ( /\ response'.is_success
             /\ dst \in Keys(IndexOf(files'))
             /\ LabelsOf(IndexOf(files'), dst) = LabelsOf(PersistedIndex, src)
             /\ get_config_file(src) \in DOMAIN files'
             /\ get_config_file(dst) \in DOMAIN files'
             /\ files'[get_config_file(dst)] = files'[get_config_file(src)]
             /\ get_config_file(src) \in DOMAIN files
             /\ files'[get_config_file(src)] = files[get_config_file(src)]
             /\ IndexOf(files').active_experiment = Some(dst)
             /\ src \in Keys(IndexOf(files'))
             /\ IndexOf(files').experiments[src] = PersistedIndex.experiments[src]
             /\ IndexOf(files').global_labels = PersistedIndex.global_labels )
      ]_vars

\* C14 (set_active frame): set_active(name) with name a key of experiments
\* succeeds and sets active_experiment to name; the experiments with their
\* metadata, global_labels, every directory and every config file are
\* unchanged.
C14_SetActiveFrame ==
    [][\A name \in ExpNames :
        ( /\ response'.op = "set_active"
          /\ name \in Keys(PersistedIndex)
          /\ mgr_set_active_experiment(name) )
        => ( /\ response'.is_success
             /\ IndexOf(files').active_experiment = Some(name)
             /\ IndexOf(files').experiments = PersistedIndex.experiments
             /\ IndexOf(files').global_labels = PersistedIndex.global_labels
             /\ dirs' = dirs
             /\ DOMAIN files' = DOMAIN files
             /\ \A f \in DOMAIN files \ {experiment_index_file} : files'[f] = files[f] )
      ]_vars

\* C14 witness: an experiment was made active that carries a label and is not
\* the only experiment.
C14_Witness ==
    /\ response.op = "set_active"
    /\ response.is_success
    /\ Cardinality(Keys(PersistedIndex)) >= 2
    /\ PersistedIndex.active_experiment # None
    /\ LabelsOf(PersistedIndex, Get(PersistedIndex.active_experiment)) # <<>>

\* C15 (update_config frame): update_config(name, config) on an existing
\* experiment with a schema-matching config succeeds and overwrites that
\* experiment's config file only: the index file and every other experiment's
\* config file are unchanged.
C15_UpdateConfigFrame ==
    [][\A name \in ConfigNames, config \in NewConfigArgs :
        ( /\ response'.op = "update_config"
          /\ name \in Keys(PersistedIndex)
          /\ MatchesSchema(config)
          /\ mgr_update_experiment_config(name, Get(config)) )
        => ( /\ response'.is_success
             /\ get_config_file(name) \in DOMAIN files'
             /\ files'[get_config_file(name)] = model_dump(Get(config))
             /\ experiment_index_file \in DOMAIN files'
             /\ files'[experiment_index_file] = files[experiment_index_file]
             /\ \A m \in ConfigNames \ {name} :
                    /\ (get_config_file(m) \in DOMAIN files')
                           = (get_config_file(m) \in DOMAIN files)
                    /\ get_config_file(m) \in DOMAIN files
                           => files'[get_config_file(m)] = files[get_config_file(m)] )
      ]_vars

\* C15 witness: a config was updated and two experiments now hold different
\* configs.
C15_Witness ==
    /\ response.op = "update_config"
    /\ response.is_success
    /\ \E n, m \in Keys(PersistedIndex) :
           /\ get_config_file(n) \in DOMAIN files
           /\ get_config_file(m) \in DOMAIN files
           /\ files[get_config_file(n)] # files[get_config_file(m)]

\* C16 (label usage): get_label_usage() succeeds with a mapping whose keys
\* are exactly global_labels and whose value for a label is exactly the set of
\* names of the experiments carrying it (empty for an unused label); the
\* index is not modified.
C16_LabelUsage ==
    [][( /\ response'.op = "get_label_usage"
         /\ mgr_get_label_usage )
        => ( /\ response'.is_success
             /\ DOMAIN response'.payload.usage = Range(PersistedIndex.global_labels)
             /\ \A L \in DOMAIN response'.payload.usage :
                    /\ Range(response'.payload.usage[L])
                           = {n \in Keys(PersistedIndex) :
                                  L \in Range(LabelsOf(PersistedIndex, n))}
                    /\ NoDuplicates(response'.payload.usage[L])
             /\ files' = files
             /\ dirs' = dirs )
      ]_vars

\* C16 witness: a usage was returned that has one label used by two
\* experiments and another label used by none.
C16_Witness ==
    /\ response.op = "get_label_usage"
    /\ response.is_success
    /\ \E L, M \in DOMAIN response.payload.usage :
           /\ Len(response.payload.usage[L]) = 2
           /\ response.payload.usage[M] = <<>>

\* C17 (label map): get_experiment_label_map(name) for an existing experiment
\* succeeds with a mapping whose keys are exactly global_labels and whose
\* value for a label is true exactly when the experiment carries the label;
\* the index is not modified.
C17_LabelMap ==
    [][\A name \in LabelNames :
        ( /\ response'.op = "get_label_map"
          /\ name \in Keys(PersistedIndex)
          /\ mgr_get_experiment_label_map(name) )
        => ( /\ response'.is_success
             /\ DOMAIN response'.payload.label_map = Range(PersistedIndex.global_labels)
             /\ \A L \in DOMAIN response'.payload.label_map :
                    response'.payload.label_map[L]
                        <=> L \in Range(LabelsOf(PersistedIndex, name))
             /\ files' = files
             /\ dirs' = dirs )
      ]_vars

\* C17 witness: a label map was returned that is true for one label and false
\* for another.
C17_Witness ==
    /\ response.op = "get_label_map"
    /\ response.is_success
    /\ \E L, M \in DOMAIN response.payload.label_map :
           /\ response.payload.label_map[L]
           /\ ~response.payload.label_map[M]

\* C18 (no operation throws): no manager method lets an exception escape to
\* its caller; every failing input ends in a response with is_success=false.
C18_NoThrow == ~response.raised

\* the manager methods that change the storage
MutatingOps == {"create", "set_active", "delete", "copy", "update_config", "rename",
                "add_labels", "remove_global_labels", "update_labels"}

\* C19 (cache update rule): after a mutating manager method whose response
\* has is_success=true the cached index equals the response's current_index;
\* after one whose response has is_success=false the cached index is what it
\* was before the call.
C19_CacheUpdateRule ==
    [][response'.op \in MutatingOps
        => IF response'.is_success
           THEN /\ response'.current_index # None
                /\ cache' = Get(response'.current_index)
           ELSE cache' = cache
      ]_vars

\* C19 witness: a mutating method failed while the cache holds experiments.
C19_Witness ==
    /\ response.op \in MutatingOps
    /\ ~response.is_success
    /\ ~response.raised
    /\ Cardinality(Keys(cache)) >= 2

\* C20 (the cache memoizes the index file): after every manager method the
\* cached index equals the index stored in the index file, or the empty index
\* when there is no index file.
C20_CacheIsIndexFile == cache = PersistedIndex

\* C20 witness: a read method failed while the cache holds an experiment.
C20_Witness ==
    /\ response.op = "get_config"
    /\ ~response.is_success
    /\ Keys(cache) # {}
    /\ cache.global_labels # <<>>

\* the answer "No active experiment set." with nothing touched
RefusedUntouched ==
    /\ ~response'.is_success
    /\ ~response'.raised
    /\ response'.message.kind = "no_active_experiment"
    /\ files' = files
    /\ dirs' = dirs
    /\ cache' = cache

\* C21 (no active experiment): when the cached index has no active
\* experiment, each active-experiment convenience method answers
\* is_success=false with "No active experiment set." and leaves the index
\* file, the directories and the cache untouched.
C21_NoActiveFailsFast ==
    [][cache.active_experiment = None
        => /\ \A config \in ConfigArgs \ {None} :
                  mgr_update_active_experiment_config(Get(config)) => RefusedUntouched
           /\ \A new \in ExpNames :
                  mgr_rename_active_experiment(new) => RefusedUntouched
           /\ mgr_get_active_experiment_config => RefusedUntouched
           /\ \A labels \in LabelLists(OneLabel) :
                  /\ mgr_add_labels_to_active_experiment(labels) => RefusedUntouched
                  /\ mgr_update_active_experiment_labels(labels) => RefusedUntouched
           /\ mgr_get_active_experiment_label_map => RefusedUntouched
      ]_vars

\* C21 witness: a convenience method was refused for want of an active
\* experiment while experiments and labels exist.
C21_Witness ==
    /\ response.message.kind = "no_active_experiment"
    /\ cache.active_experiment = None
    /\ Keys(cache) # {}
    /\ cache.global_labels # <<>>

\* a response with is_success=false that left every file and directory alone
FailedUntouched ==
    /\ ~response'.is_success
    /\ ~response'.raised
    /\ files' = files
    /\ dirs' = dirs

\* the step is a call of one of the eight operations on the experiment name
\* (for copy and rename with any safe destination)
CalledOn(name) ==
    \/ response'.op = "set_active" /\ mgr_set_active_experiment(name)
    \/ response'.op = "delete" /\ mgr_delete_experiment(name)
    \/ /\ response'.op = "rename"
       /\ \E new \in ExpNames : validate_safe_name(new) /\ mgr_rename_experiment(name, new)
    \/ /\ response'.op = "copy"
       /\ \E dst \in ExpNames, now \in Times :
              validate_safe_name(dst) /\ mgr_copy_experiment(name, dst, now)
    \/ /\ response'.op = "update_config"
       /\ \E config \in ConfigArgs \ {None} : mgr_update_experiment_config(name, Get(config))
    \/ /\ response'.op = "add_labels"
       /\ \E labels \in LabelLists(OneLabel) : mgr_add_labels_to_experiment(name, labels)
    \/ /\ response'.op = "update_labels"
       /\ \E labels \in LabelLists(OneLabel) : mgr_update_experiment_labels(name, labels)
    \/ response'.op = "get_label_map" /\ mgr_get_experiment_label_map(name)

\* C22 (unknown experiment): set_active, delete, rename (old), copy (src),
\* update_config, add_labels_to_experiment, update_experiment_labels and
\* get_experiment_label_map called on a name that is not a key of experiments
\* return is_success=false and leave the index file, every directory and
\* every config file unchanged.
C22_UnknownExperimentFails ==
    [][FailedUntouched
         \/ \A name \in ExpNames \ Keys(PersistedIndex) : ~CalledOn(name)
      ]_vars

\* C22 witness: a delete of an unknown experiment was refused while other
\* experiments exist.
C22_Witness ==
    /\ response.op = "delete"
    /\ ~response.is_success
    /\ response.message.kind = "does_not_exist"
    /\ Keys(PersistedIndex) # {}

\* C23 (get_config): get_config(name) returns is_success=false when name is
\* not a key of experiments, returns the stored config when name is a key,
\* and never modifies the index or any file.
C23_GetConfig ==
    [][\A name \in ExpNames \cup {AliasName} :
        ( /\ response'.op = "get_config"
          /\ mgr_get_experiment_config(name) )
        => ( /\ files' = files
             /\ dirs' = dirs
             /\ cache' = cache
             /\ IF name \in Keys(PersistedIndex)
                THEN /\ response'.is_success
                     /\ get_config_file(name) \in DOMAIN files
                     /\ response'.payload.config # None
                     /\ model_dump(Get(response'.payload.config))
                            = files[get_config_file(name)]
                ELSE ~response'.is_success )
      ]_vars

\* the call was refused for the kind of its config, before anything was
\* written
RefusedForKind ==
    /\ ~response'.is_success
    /\ response'.message.kind = "type_error"
    /\ files' = files
    /\ dirs' = dirs

\* C24 (schema matching): create and update_config given a config whose kind
\* (schema-typed or dynamic) differs from the kind of the context's default
\* config fail before any directory, config file or index write, so the
\* storage is unchanged; a config of the matching kind is not refused for its
\* kind.
C24_SchemaMatching ==
    [][\A name \in KindNames, config \in KindConfigArgs :
        /\ ( /\ response'.op = "create"
             /\ \E now \in OneTime : mgr_create_experiment(name, config, now) )
           => IF Get(config).kind # ctx.default_config.kind
              THEN RefusedForKind
              ELSE response'.message.kind # "type_error"
        /\ ( /\ response'.op = "update_config"
             /\ mgr_update_experiment_config(name, Get(config)) )
           => IF Get(config).kind # ctx.default_config.kind
              THEN RefusedForKind
              ELSE response'.message.kind # "type_error"
      ]_vars

\* C24 witness: under a context with a dynamic default config, a call was
\* refused for the kind of its config while an experiment exists.
C24_Witness ==
    /\ ctx.default_config.kind = "ConfigClass"
    /\ response.op \in {"create", "update_config"}
    /\ response.message.kind = "type_error"
    /\ Keys(PersistedIndex) # {}

(***************************************************************************)
(* C25: the index loads, index saves and directory operations of a call.   *)
(***************************************************************************)
IndexLoads(t) == Len(SelectSeq(t, LAMBDA ev : ev = "load_index"))
IndexSaves(t) == Len(SelectSeq(t, LAMBDA ev : ev = "save_index"))
DirectoryOps(t) == Len(SelectSeq(t, LAMBDA ev : ev \in {"make_dir", "remove_dir",
                                                         "rename_dir"}))
DirectoryOperations == {"create", "copy", "rename", "delete"}

\* P(op, t) holds of every core operation call this step can be, t being the
\* accesses the call performs from the storage state before the step.
EveryCall(P(_, _)) ==
    /\ response'.op = "create" =>
         \A name \in LabelNames, now \in OneTime :
            mgr_create_experiment(name, None, now)
               => P("create", io_create_experiment(FS, ctx, name, None))
    /\ response'.op = "set_active" =>
         \A name \in LabelNames :
            mgr_set_active_experiment(name)
               => P("set_active", io_set_active_experiment(FS, name))
    /\ response'.op = "delete" =>
         \A name \in LabelNames :
            mgr_delete_experiment(name)
               => P("delete", io_delete_experiment(FS, name))
    /\ response'.op = "copy" =>
         \A src \in LabelNames, dst \in LabelNames, now \in OneTime :
            mgr_copy_experiment(src, dst, now)
               => P("copy", io_copy_experiment(FS, ctx, src, dst))
    /\ response'.op = "update_config" =>
         \A name \in LabelNames :
            mgr_update_experiment_config(name, BaseModelConfig("v1"))
               => P("update_config",
                    io_update_experiment_config(FS, ctx, name, BaseModelConfig("v1")))
    /\ response'.op = "rename" =>
         \A old \in LabelNames, new \in LabelNames :
            mgr_rename_experiment(old, new)
               => P("rename", io_rename_experiment(FS, old, new))
    /\ response'.op = "add_labels" =>
         \A name \in LabelNames, labels \in LabelLists(Labels) :
            mgr_add_labels_to_experiment(name, labels)
               => P("add_labels", io_add_labels_to_experiment(FS, name, labels))
    /\ response'.op = "remove_global_labels" =>
         \A labels \in LabelLists(Labels) :
            mgr_remove_global_labels(labels)
               => P("remove_global_labels", io_remove_global_labels(FS, labels))
    /\ response'.op = "update_labels" =>
         \A name \in LabelNames, labels \in LabelLists(Labels) :
            mgr_update_experiment_labels(name, labels)
               => P("update_labels", io_update_experiment_labels(FS, name, labels))

OneLoadThenOneSave(op, t) ==
    /\ IndexLoads(t) = 1
    /\ IndexSaves(t) = 1
    /\ t[1] = "load_index"
    /\ op \in DirectoryOperations => DirectoryOps(t) = 1

LoadsThenAtMostOneSave(op, t) ==
    /\ t # <<>> /\ t[1] = "load_index"
    /\ IndexLoads(t) = (IF op = "copy" THEN 2 ELSE 1)
    /\ IndexSaves(t) = (IF \/ op = "update_config"
                           \/ response'.message.kind = "no_labels_provided"
                        THEN 0 ELSE 1)
    /\ IndexSaves(t) = 1 => t[Len(t)] = "save_index"
    /\ op \in DirectoryOperations => DirectoryOps(t) = 1

ExperimentDirs == {d \in dirs : Len(d) = Len(experiment_root) + 1}

\* C26 (index/directory consistency): the experiment directories under the
\* experiment root are exactly the directories of the keys of experiments,
\* and the directory of every key holds its config file.
C26_IndexDirectoryConsistency ==
    /\ ExperimentDirs = {get_experiment_dir(name) : name \in Keys(PersistedIndex)}
    /\ \A name \in Keys(PersistedIndex) : get_config_file(name) \in DOMAIN files

(***************************************************************************)
(* C27: a create whose index save fails.                                   *)
(***************************************************************************)
\* create_experiment(name, config) gets as far as writing the config file,
\* and the save of the index after it raises
IndexSaveFailsAfterConfigWrite(name, config) ==
    LET actual_config == IF config = None THEN ctx.default_config ELSE Get(config)
        s == save_config(FS, name, actual_config)
    IN /\ validate_safe_name(name)
       /\ validate_config_type(actual_config, ctx)
       /\ ~path_exists(FS, get_experiment_dir(name))
       /\ ~load_index(FS).raised
       /\ ~s.raised
       /\ save_index(s.fs, Get(load_index(FS).index)).raised

\* C27 (non-transactional create): when create writes the config file and
\* the index save after it fails, the response has is_success = false, the
\* index file is as it was before the call and the name is no key of
\* experiments, and the experiment directory with its config file stays on
\* disk.
C27_OrphanAfterFailedSave ==
    [][\A name \in ExpNames, config \in ConfigArgs, now \in Times :
          ( /\ response'.op = "create"
            /\ IndexSaveFailsAfterConfigWrite(name, config)
            /\ mgr_create_experiment(name, config, now) )
          => /\ ~response'.raised /\ ~response'.is_success
             /\ (experiment_index_file \in DOMAIN files')
                   = (experiment_index_file \in DOMAIN files)
             /\ IndexOf(files') = IndexOf(files)
             /\ name \notin Keys(IndexOf(files'))
             /\ get_experiment_dir(name) \in dirs'
             /\ get_experiment_dir(name) \notin dirs
             /\ get_config_file(name) \in DOMAIN files']_vars

C27_Witness ==
    /\ response.op = "create" /\ ~response.is_success
    /\ response.message.kind = "write_failed"
    /\ \E name \in ExpNames :
          /\ get_experiment_dir(name) \in dirs
          /\ get_config_file(name) \in DOMAIN files
          /\ name \notin Keys(PersistedIndex)

(***************************************************************************)
(* C28: rename onto a name that exists.                                    *)
(***************************************************************************)
\* C28 (no overwrite): rename(old, new) fails, with the index file and the
\* directories of old and new unchanged, whenever new is a key of
\* experiments or has a directory (new = old included).
C28_RenameNeverOverwrites ==
    [][\A old \in ExpNames, new \in ExpNames :
          ( /\ response'.op = "rename"
            /\ \/ new \in Keys(PersistedIndex)
               \/ path_exists(FS, get_experiment_dir(new))
            /\ mgr_rename_experiment(old, new) )
          => /\ ~response'.is_success
             /\ files' = files
             /\ dirs' = dirs]_vars

(***************************************************************************)
(* C29: what remove_global_labels says about labels it did not find.       *)
(***************************************************************************)
\* C29 (labels not found): a remove_global_labels call in which some of the
\* requested labels are in global_labels and others are not answers with a
\* response that reports exactly the requested labels that were not found.
C29_ReportsLabelsNotFound ==
    [][\A labels \in LabelLists(Labels) :
          LET requested == Range(labels)
              known == Range(PersistedIndex.global_labels)
          IN ( /\ response'.op = "remove_global_labels"
               /\ requested \cap known # {}
               /\ requested \ known # {}
               /\ mgr_remove_global_labels(labels) )
             => response'.message.unknown = requested \ known]_vars

(***************************************************************************)
(* Two processes calling the core API on one storage root.  A call is two  *)
(* steps: index = io.load_index(), and then the rest of the function, up   *)
(* to and including io.save_index(index).                                  *)
(***************************************************************************)
\* mutant: the index is read again just before it is changed and saved
index_read_again(p) ==
    IF load_index(FS).raised THEN Get(inflight[p].index) ELSE Get(load_index(FS).index)

\* the local variable index of the call process p is in
index_held(p) == Get(inflight[p].index)

\* index = io.load_index()
LoadIndex(p, op, name, labels) ==
    /\ inflight[p].pc = "idle"
    /\ LET l == load_index(FS)
       IN IF l.raised
          THEN /\ response' = Observed(op, FALSE, Failure(l.err, FS))
               /\ inflight' = [inflight EXCEPT ![p] = Idle]
          ELSE /\ inflight' = [inflight EXCEPT ![p] =
                                  [Idle EXCEPT !.pc = "loaded", !.op = op,
                                               !.name = name, !.labels = labels,
                                               !.index = l.index]]
               /\ UNCHANGED response
    /\ UNCHANGED <<ctx, dirs, files, cache>>

\* the rest of the call, with the index loaded earlier
Complete(p) ==
    /\ inflight[p].pc = "loaded"
    /\ LET call == inflight[p]
           res == IF call.op = "set_active"
                  THEN set_active_experiment_loaded(FS, index_held(p), call.name)
                  ELSE add_labels_to_experiment_loaded(FS, index_held(p), call.name,
                                                       call.labels)
       IN /\ dirs' = res.fs.dirs
          /\ files' = res.fs.files
          /\ response' = Observed(call.op, FALSE, res)
          /\ inflight' = [inflight EXCEPT ![p] =
                             [call EXCEPT !.pc = "idle",
                                          !.replaced = Some(PersistedIndex),
                                          !.ok = Some(res.is_success)]]
    /\ UNCHANGED <<ctx, cache>>

BeginSetActive(N) == \E p \in Procs, name \in N : LoadIndex(p, "set_active", name, <<>>)
BeginAddLabels(N, L) == \E p \in Procs, name \in N, labels \in L :
                           LoadIndex(p, "add_labels", name, labels)
Finish == \E p \in Procs : Complete(p)

\* SpecRace: the manager creates experiments; two other processes set the
\* active experiment and add a label, each in two steps.
RaceLabelLists == {<<"x">>}

NextRace ==
    \/ Create(LabelNames, {None}, OneTime)
    \/ BeginSetActive(LabelNames)
    \/ BeginAddLabels(LabelNames, RaceLabelLists)
    \/ Finish

SpecRace == Init /\ [][NextRace]_vars

\* C30 (last save wins): when a process saves the index it loaded earlier,
\* the index file becomes that process's snapshot with its own change and
\* nothing else: whatever another process saved in between is gone.
C30_LastSaveWins ==
    [][\A p \in Procs :
          ( /\ inflight[p].pc = "loaded"
            /\ Complete(p)
            /\ response'.is_success
            /\ inflight[p].labels # <<>> \/ inflight[p].op = "set_active" )
          => LET snapshot == Get(inflight[p].index)
                 name == inflight[p].name
                 final == IndexOf(files')
             IN /\ final = Get(response'.current_index)
                /\ Keys(final) = Keys(snapshot)
                /\ \A n \in Keys(final) \ {name} :
                      final.experiments[n] = snapshot.experiments[n]
                /\ inflight[p].op = "set_active" =>
                      final = [snapshot EXCEPT !.active_experiment = Some(name)]
                /\ inflight[p].op = "add_labels" =>
                      final.active_experiment = snapshot.active_experiment]_vars

\* C30 witness: two processes loaded the same index; the first saved a new
\* active experiment; the second then added a label with its snapshot, and
\* the index file has the second's label and the old active experiment.
C30_Witness ==
    \E p \in Procs : \E q \in Procs \ {p} :
       /\ inflight[q].pc = "idle" /\ inflight[q].op = "set_active"
       /\ inflight[p].pc = "idle" /\ inflight[p].op = "add_labels"
       /\ inflight[q].replaced # None /\ inflight[p].replaced # None
       /\ inflight[q].index = inflight[p].index
       /\ inflight[q].replaced = inflight[q].index
       /\ Get(inflight[p].replaced).active_experiment = Some(inflight[q].name)
       /\ Get(inflight[p].index).active_experiment # Some(inflight[q].name)
       /\ response.op = "add_labels" /\ response.is_success
       /\ PersistedIndex.active_experiment = Get(inflight[p].index).active_experiment
       /\ PersistedIndex.global_labels = <<"x">>

(***************************************************************************)
(* C31: created_at.                                                        *)
(***************************************************************************)
\* C31 (created_at is immutable): an experiment that is in the index before
\* and after an operation keeps its created_at, and a rename carries the
\* created_at of the old name to the new one.
C31_CreatedAtImmutable ==
    [][/\ \A n \in Keys(PersistedIndex) \cap Keys(IndexOf(files')) :
             IndexOf(files').experiments[n].created_at
                = PersistedIndex.experiments[n].created_at
       /\ \A old \in ExpNames, new \in ExpNames :
             ( /\ response'.op = "rename" /\ response'.is_success
               /\ old \in Keys(PersistedIndex)
               /\ mgr_rename_experiment(old, new) )
             => IndexOf(files').experiments[new].created_at
                   = PersistedIndex.experiments[old].created_at]_vars

(***************************************************************************)
(* C32: config_path.                                                       *)
(***************************************************************************)
\* n/<config_file_name> as a relative path: the name is one component (none
\* when the name is empty), the file name is the last
DerivedConfigPath(n) == (IF n = <<>> THEN <<>> ELSE <<n>>) \o <<ConfigFileName>>

\* C32 (config_path is derived from the name): in the index file, the
\* config_path of every key n of experiments is n/<config_file_name>
\* relative to the experiment root.
C32_ConfigPathDerived ==
    \A n \in Keys(PersistedIndex) :
       PersistedIndex.experiments[n].config_path = DerivedConfigPath(n)

\* C32 witness: a rename has succeeded and the experiment is in the index
\* under a non-empty name with the config_path of that name
C32_Witness ==
    /\ response.op = "rename" /\ response.is_success
    /\ \E n \in Keys(PersistedIndex) :
          /\ n # <<>>
          /\ PersistedIndex.experiments[n].config_path = <<n, ConfigFileName>>
          /\ PersistedIndex.active_experiment = Some(n)

(***************************************************************************)
(* C33: no label twice.                                                    *)
(***************************************************************************)
\* the document in the index file, as it was written
WrittenIndexes == IF experiment_index_file \in DOMAIN files
                  THEN {files[experiment_index_file]} ELSE {}

\* C33 (uniqueness): in the index file as written and in the manager's
\* cached index, global_labels and the labels of every experiment hold no
\* label twice.
C33_NoLabelTwice ==
    \A index \in WrittenIndexes \cup {cache} :
       /\ NoDuplicates(index.global_labels)
       /\ \A n \in Keys(index) : NoDuplicates(index.experiments[n].labels)

\* C33 witness: a list naming a label twice was passed to
\* update_experiment_labels with success, and the written index has two
\* global labels and two labels on an experiment.
C33_Witness ==
    /\ response.op = "update_labels" /\ response.is_success
    /\ \E index \in WrittenIndexes :
          /\ Len(index.global_labels) = 2
          /\ \E n \in Keys(index) : Len(index.experiments[n].labels) = 2

(***************************************************************************)
(* C34: safe names only.                                                   *)
(***************************************************************************)
\* one of \ / : * ? " < > | or a space occurs in the name
HasForbiddenCharacter(name) == Range(name) \cap INVALID_CHARS # {}

\* the step is a create, a copy or a rename whose new name is `name`
NamesNewExperiment(name) ==
    \/ /\ response'.op = "create"
       /\ \E config \in ConfigArgs, now \in Times : mgr_create_experiment(name, config, now)
    \/ /\ response'.op = "copy"
       /\ \E src \in ExpNames, now \in Times : mgr_copy_experiment(src, name, now)
    \/ /\ response'.op = "rename"
       /\ \E old \in ExpNames : mgr_rename_experiment(old, name)

\* C34 (safe names only): a create, copy or rename whose new name holds a
\* forbidden character is refused and changes neither a file nor a
\* directory, and every key of experiments in the index file is a safe name.
C34_SafeNamesOnly ==
    [][/\ \A name \in ExpNames :
             (HasForbiddenCharacter(name) /\ NamesNewExperiment(name))
             => /\ ~response'.is_success
                /\ files' = files
                /\ dirs' = dirs
                /\ cache' = cache
       /\ \A n \in Keys(IndexOf(files')) : ~HasForbiddenCharacter(n)]_vars

\* C34 witness: a rename to an unsafe name was refused while experiments
\* exist
C34_Witness ==
    /\ response.op = "rename" /\ response.raised
    /\ Cardinality(Keys(PersistedIndex)) = 2

(***************************************************************************)
(* C35: saving a config and loading it again.                              *)
(***************************************************************************)
\* save_config(name, config) in the present storage, then load_config(name):
\* the loaded document has the serialized field values of the saved one
ValuesRoundTrip(name, config) ==
    LET s == save_config(FS, name, config)
        l == load_config(s.fs, ctx, name)
    IN ~s.raised => /\ ~l.raised
                    /\ model_dump(Get(l.config)) = model_dump(config)

\* ... and its kind is `kind`
KindAfterRoundTrip(name, config, kind) ==
    LET s == save_config(FS, name, config)
        l == load_config(s.fs, ctx, name)
    IN (~s.raised /\ ~l.raised) => Get(l.config).kind = kind

\* update_experiment_config(name, config) in the present storage, then
\* get_experiment_config(name): the updated values are returned
UpdateThenGet(name, config) ==
    LET u == update_experiment_config(FS, ctx, name, config)
        g == get_experiment_config(u.fs, ctx, name)
    IN u.is_success => /\ g.is_success
                       /\ g.payload.config # None
                       /\ model_dump(Get(g.payload.config)) = model_dump(config)
                       /\ Get(g.payload.config).kind = config.kind

C36_FailureKeepsIndex ==
    [][~response'.is_success =>
          /\ (experiment_index_file \in DOMAIN files')
                = (experiment_index_file \in DOMAIN files)
          /\ experiment_index_file \in DOMAIN files
                => files'[experiment_index_file] = files[experiment_index_file]]_vars

\* C36 witness: an operation on an existing index has failed
C36_Witness ==
    /\ response.op \in MutatingOps
    /\ ~response.is_success /\ ~response.raised
    /\ Keys(PersistedIndex) # {}
    /\ response.message.kind \in {"destination_exists", "unknown_labels",
                                   "does_not_exist"}

(***************************************************************************)
(* Two managers on one storage root.  The second manager's calls change    *)
(* the storage and leave the first manager's cache as it is.               *)
(***************************************************************************)
OtherManager(res) ==
    /\ dirs' = res.fs.dirs
    /\ files' = res.fs.files
    /\ UNCHANGED <<ctx, cache, response, inflight>>

OtherDelete(N) == \E name \in N : OtherManager(delete_experiment(FS, name))
OtherRename(N) == \E old \in N, new \in N : OtherManager(rename_experiment(FS, old, new))

\* SpecManagers: the first manager creates experiments, sets the active one
\* and works on it through its convenience methods; the second manager
\* deletes and renames.
NextManagers ==
    \/ Create(LabelNames, {None}, OneTime)
    \/ SetActive(LabelNames)
    \/ AddLabelsToActive(LabelLists(OneLabel))
    \/ UpdateActiveLabels(LabelLists(OneLabel))
    \/ RenameActive(LabelNames)
    \/ Refresh
    \/ OtherDelete(LabelNames)
    \/ OtherRename(LabelNames)

SpecManagers == Init /\ [][NextManagers]_vars

\* the first manager's cached active experiment is no longer in the index
StaleActive ==
    /\ cache.active_experiment # None
    /\ Get(cache.active_experiment) \notin Keys(PersistedIndex)

\* C38 (stale cache is harmless): when the cached active experiment of a
\* manager is no longer in the index file, its convenience methods that add
\* labels to, set the labels of, or rename the active experiment return
\* is_success = false and change neither a file nor a directory.
C38_StaleCacheHarmless ==
    [][StaleActive =>
          /\ \A labels \in LabelLists(OneLabel) :
                mgr_add_labels_to_active_experiment(labels) => FailedUntouched
          /\ \A labels \in LabelLists(OneLabel) :
                mgr_update_active_experiment_labels(labels) => FailedUntouched
          /\ \A new \in LabelNames :
                mgr_rename_active_experiment(new) => FailedUntouched]_vars

\* C38 witness: the other manager has renamed the cached active experiment,
\* and a convenience method of the first manager has failed
C38_Witness ==
    /\ StaleActive
    /\ response.op \in {"add_labels", "update_labels", "rename"}
    /\ ~response.is_success
    /\ response.message.kind = "not_found"
    /\ Keys(PersistedIndex) # {}
    /\ PersistedIndex.active_experiment # None
    /\ PersistedIndex.active_experiment # cache.active_experiment

(***************************************************************************)
(* create and copy of another process, one storage access at a time:       *)
(* copy_experiment's load of the index and of the source config, then      *)
(* _create_experiment_core's check of the directory, its load of the       *)
(* index, its write of the config file, and its save of the index.         *)
(***************************************************************************)
\* the call of process p goes on from pc, the storage now being fs
StepOn(p, call, pc, fs) ==
    /\ dirs' = fs.dirs
    /\ files' = fs.files
    /\ inflight' = [inflight EXCEPT ![p] = [call EXCEPT !.pc = pc]]
    /\ UNCHANGED <<ctx, cache, response>>

\* the call of process p ends with the response res
StepEnd(p, call, res) ==
    /\ dirs' = res.fs.dirs
    /\ files' = res.fs.files
    /\ inflight' = [inflight EXCEPT ![p] =
                       [Idle EXCEPT !.op = call.op, !.name = call.name,
                                    !.ok = Some(res.is_success)]]
    /\ response' = Observed(call.op, FALSE, res)
    /\ UNCHANGED <<ctx, cache>>

\* remove_global_labels after its load of the index
RemoveLoaded(p) ==
    /\ inflight[p].pc = "loaded"
    /\ inflight[p].op = "remove_global_labels"
    /\ StepEnd(p, inflight[p],
               remove_global_labels_loaded(FS, Get(inflight[p].index),
                                           inflight[p].labels))

\* create_experiment: the config is the context's default
EnterCreate(p, name) ==
    /\ inflight[p].pc = "idle"
    /\ StepOn(p, [Idle EXCEPT !.op = "create", !.name = name,
                              !.config = Some(ctx.default_config)],
              "entered", FS)

\* copy_experiment: index = io.load_index(); src_config = io.load_config(src);
\* src_labels = index.experiments[src].labels
EnterCopy(p, src, dst) ==
    /\ inflight[p].pc = "idle"
    /\ LET call == [Idle EXCEPT !.op = "copy", !.name = dst]
           l == load_index(FS)
           g == load_config(FS, ctx, src)
       IN IF l.raised THEN StepEnd(p, call, Failure(l.err, FS))
          ELSE IF g.raised THEN StepEnd(p, call, Failure(g.err, FS))
          ELSE IF src \notin DOMAIN Get(l.index).experiments
          THEN StepEnd(p, call, Failure("key_error", FS))
          ELSE StepOn(p, [call EXCEPT !.config = g.config,
                                       !.labels = Get(l.index).experiments[src].labels],
                      "entered", FS)

\* _create_experiment_core: _validate_config_type, experiment_dir.exists()
CoreCheck(p) ==
    /\ inflight[p].pc = "entered"
    /\ LET call == inflight[p]
       IN IF ~validate_config_type(Get(call.config), ctx)
          THEN StepEnd(p, call, Failure("type_error", FS))
          ELSE IF path_exists(FS, get_experiment_dir(call.name))
          THEN StepEnd(p, call, Failure("already_exists", FS))
          ELSE StepOn(p, call, "checked", FS)

\* _create_experiment_core: index = io.load_index()
CoreLoad(p) ==
    /\ inflight[p].pc = "checked"
    /\ LET call == inflight[p]
           l == load_index(FS)
       IN IF l.raised THEN StepEnd(p, call, Failure(l.err, FS))
          ELSE StepOn(p, [call EXCEPT !.index = l.index], "core_loaded", FS)

\* _create_experiment_core: io.save_config(experiment_name, config)
CoreSaveConfig(p) ==
    /\ inflight[p].pc = "core_loaded"
    /\ LET call == inflight[p]
           s == save_config(FS, call.name, Get(call.config))
       IN IF s.raised THEN StepEnd(p, call, Failure(s.err, s.fs))
          ELSE StepOn(p, call, "config_saved", s.fs)

\* _create_experiment_core: the new metadata, the active experiment,
\* io.save_index(index)
CoreSaveIndex(p, now) ==
    /\ inflight[p].pc = "config_saved"
    /\ LET call == inflight[p]
           meta == ExperimentMetadata(now, call.labels,
                                      relative_to_root(get_config_file(call.name)))
           index1 == [Get(call.index) EXCEPT
                         !.experiments = MapSet(@, call.name, meta)]
           index2 == set_active(index1, Some(call.name))
           w == save_index(FS, index2)
       IN IF w.raised THEN StepEnd(p, call, Failure(w.err, w.fs))
          ELSE StepEnd(p, call,
                       Success(IF call.op = "copy" THEN "copied" ELSE "created",
                               index2, w.fs))

BeginCreate(N) == \E p \in Procs, name \in N : EnterCreate(p, name)
BeginCopy(N) == \E p \in Procs, src \in N, dst \in N : EnterCopy(p, src, dst)
BeginRemoveGlobalLabels(L) ==
    \E p \in Procs, labels \in L : LoadIndex(p, "remove_global_labels", <<>>, labels)
CheckDirectory == \E p \in Procs : CoreCheck(p)
LoadAgain == \E p \in Procs : CoreLoad(p)
WriteConfig == \E p \in Procs : CoreSaveConfig(p)
SaveIndex(T) == \E p \in Procs, now \in T : CoreSaveIndex(p, now)
FinishRemoveGlobalLabels == \E p \in Procs : RemoveLoaded(p)

\* SpecSteps: the manager creates experiments and labels one; two other
\* processes create, copy and remove the label, one storage access at a
\* time.
NextSteps ==
    \/ Create(LabelNames, {None}, OneTime)
    \/ AddLabels({<<"a">>}, RaceLabelLists)
    \/ BeginCreate(LabelNames)
    \/ BeginCopy(LabelNames)
    \/ BeginRemoveGlobalLabels(RaceLabelLists)
    \/ CheckDirectory
    \/ LoadAgain
    \/ WriteConfig
    \/ SaveIndex(OneTime)
    \/ FinishRemoveGlobalLabels

SpecSteps == Init /\ [][NextSteps]_vars

\* C37 (whole-snapshot consistency): every index written to the index file
\* keeps every experiment's labels within global_labels, and its
\* active_experiment is None or a key of experiments.
C37_WrittenIndexConsistent ==
    \A index \in WrittenIndexes :
       /\ \A n \in Keys(index) :
             Range(index.experiments[n].labels) \subseteq Range(index.global_labels)
       /\ index.active_experiment # None
             => Get(index.active_experiment) \in Keys(index)

\* C39 (exclusive creation): of two create calls with the same name by two
\* processes, at most one returns is_success = true.
C39_ExclusiveCreation ==
    \A p \in Procs : \A q \in Procs \ {p} :
       ~ ( /\ inflight[p].pc = "idle" /\ inflight[q].pc = "idle"
           /\ inflight[p].op = "create" /\ inflight[q].op = "create"
           /\ inflight[p].name = inflight[q].name
           /\ inflight[p].ok = Some(TRUE) /\ inflight[q].ok = Some(TRUE) )
====
